---- MODULE Spec2Model ----
(***************************************************************************)
(* TuneTools backend: weekly album resolution (services/album.py), the     *)
(* image / LLM / news provider chains (services/image_generation.py,       *)
(* services/llm.py, services/news_aggregator.py), the LLM content          *)
(* validator and the week-boundary computation.                            *)
(***************************************************************************)
EXTENDS Integers, Sequences, FiniteSets, TLC

VARIABLES
    \* ---- album resolution (services/album.py) ----
    imgCfg,        \* ImageGenerationService.gemini_available / openai_available
    albums,        \* rows of the "albums" table
    blobs,         \* objects of the "vinyl_disks" bucket
    nextId,        \* next id the album table hands out
    pc,            \* position of each get_or_create_weekly_album call
    user_id,       \* argument user_id of each call
    refDate,       \* argument date of each call (ordinal day)
    week_start,    \* local week_start.date() of each call
    artwork,       \* local artwork_data of each call (where the bytes came from)
    image_failed,  \* local image_failed of each call
    imgLog,        \* image providers invoked by each call, in order, with outcome
    chainCalls,    \* generate_album_artwork invocations made by each call
    uploads,       \* requests each call made to the bucket, in order, with outcome
    ret,           \* id of the album each call returned (0: none)
    retFlag,       \* image_generation_failed each call returned
    err,           \* where each raising call raised
    conflict,      \* whether the call's insert met the uniqueness conflict
    pred,          \* calls that had returned when this call started
    \* ---- LLM content (services/llm.py) ----
    vResp,         \* the raw response handed to _parse_and_validate_response
    vOut,          \* what _parse_and_validate_response did with it
    llmCfg,        \* LLMService.openai_available / gemini_available
    llmPc,         \* position of the generate_song_content call
    llmLog,        \* LLM providers invoked by the call, in order, with outcome
    llmResp,       \* the raw response the returned content was parsed from
    llmRet,        \* the content the call returned
    llmErr,        \* the exception the call raised
    \* ---- week boundaries (AlbumService.get_week_boundaries) ----
    wbDate,        \* the datetime handed to get_week_boundaries
    wbOut,         \* the (week_start, week_end) it returned
    \* ---- news (services/news_aggregator.py) ----
    newsCfg,       \* which of SERPAPI_KEY / NEWSAPI_KEY / WORLDNEWS_API_KEY are set
    cache,         \* NewsAggregatorService.cache: key -> (articles, time)
    now,           \* time.time()
    ticks,         \* clock advances so far
    fetches,       \* fetch_news calls so far
    newsPc,        \* position of the fetch_news call
    newsArgs,      \* arguments of the current (or last) fetch_news call
    newsProv,      \* provider _fetch_with_fallback tries next
    newsLog,       \* news providers invoked by the call, per pool, with outcome
    preferred_articles, \* local preferred_articles of the call
    general_articles,   \* local general_articles of the call
    newsRet,       \* the list the last fetch_news call returned
    newsHit,       \* whether that list came from the cache
    distIn,        \* the max_articles whose 70/30 distribution is calculated
    distOut,       \* the preferred_count and general_count calculated for it
    \* ---- vinyl disk (services/vinyl_disk.py) ----
    vdIn,          \* the arguments of the create_vinyl_disk call, and the Pillow build
    vdOut,         \* what the call returned or raised
    \* ---- songs of the week's album (api/songs.py, api/songs_management.py,
    \*      AlbumService.check_album_completion) ----
    songs,         \* rows of the "songs" table: created on earlier days, created today
    gsPc,          \* position of each generate_song request
    gsAlbum,       \* id of the album get_or_create_weekly_album returned to it (0: none)
    gsWrote,       \* whether the request has written its song row
    gsErr,         \* the step at which the request ended in an error
    gsCalls,       \* generate_song requests made so far by each client
    chkPc,         \* position of each check_album_completion call
    chk,           \* what the call read, and whether song_count has changed since
    chkRet,        \* what the last call of each caller returned
    chkWrote,      \* whether that call sent an update of is_complete that the store took
    chkCalls,      \* check_album_completion calls made so far by each caller
    deletes        \* delete_song requests made so far

albumVars == <<imgCfg, albums, blobs, nextId, pc, user_id, refDate,
               week_start, artwork, image_failed, imgLog, chainCalls, uploads,
               ret, retFlag, err, conflict, pred>>

llmVars == <<vResp, vOut, llmCfg, llmPc, llmLog, llmResp, llmRet, llmErr>>

weekVars == <<wbDate, wbOut>>

distVars == <<distIn, distOut>>

newsVars == <<newsCfg, cache, now, ticks, fetches, newsPc, newsArgs, newsProv,
              newsLog, preferred_articles, general_articles, newsRet, newsHit, distVars>>

vinylVars == <<vdIn, vdOut>>

songVars == <<songs, gsPc, gsAlbum, gsWrote, gsErr, gsCalls, chkPc, chk, chkRet, chkWrote,
              chkCalls, deletes>>

vars == <<albumVars, llmVars, weekVars, newsVars, vinylVars, songVars>>

\* ------------------------------------------------------------------ bounds
NumProcs == 2
NumUsers == 1
FirstDay == 6
LastDay == 8
MaxMicro == 2
MaxLyricLen == 3
MaxTagLen == 5
MaxOrdinal == 21
MaxArticles == 3
MaxRaw == 2
MaxFetches == 2
MaxTicks == 2
MaxDiskSize == 16
NumCheckers == 2
MaxRequests == 1
MaxChecks == 2
MaxDeletes == 1
MaxCount == 100

Procs == 1..NumProcs
Users == 1..NumUsers
\* the authenticated user each request runs for
UserOf(p) == ((p - 1) % NumUsers) + 1
RefDays == FirstDay..LastDay

\* ------------------------------------------------- dates and week boundaries
\* the time of day runs over 0..LastMicro; LastMicro is 23:59:59.999999
LastMicro == MaxMicro

\* datetime.weekday(): Monday is 0; ordinal day 1 is a Monday
weekday(d) == (d + 6) % 7

\* week boundaries that start on the reference day itself
WeekBoundariesNoMonday(date) ==
    LET ws == [day |-> date.day, us |-> 0]
        we == [day |-> ws.day + 6, us |-> LastMicro]
    IN  <<ws, we>>

\* week boundaries whose end keeps the midnight time of the start
WeekBoundariesEndAtMidnight(date) ==
    LET ws == [day |-> date.day - weekday(date.day), us |-> 0]
        we == [day |-> ws.day + 6, us |-> 0]
    IN  <<ws, we>>

\* AlbumService.get_week_boundaries: a datetime is [day: ordinal, us: time of day]
get_week_boundaries(date) ==
    LET days_since_monday == weekday(date.day)
        ws == [day |-> date.day - days_since_monday, us |-> 0]
        we == [day |-> ws.day + 6, us |-> LastMicro]
    IN  <<ws, we>>

Datetimes == [day : 1..MaxOrdinal, us : 0..LastMicro]
NoDatetime == [day |-> 0, us |-> 0]
NoWeek == <<NoDatetime, NoDatetime>>

\* one call of get_week_boundaries
ComputeWeekBoundaries ==
    /\ wbDate # NoDatetime
    /\ wbOut = NoWeek
    /\ wbOut' = get_week_boundaries(wbDate)
    /\ UNCHANGED <<wbDate, albumVars, llmVars, newsVars, vinylVars, songVars>>

\* ------------------------------------------------------------- album store
\* rows matching .eq("user_id", u).eq("week_start", w)
RowsFor(u, w) == {r \in albums : r.user_id = u /\ r.week_start = w}

\* an albums table without the constraint
InsertNeverConflicts(u, w) == FALSE

\* the uniqueness constraint on (user_id, week_start) of the albums table
InsertConflicts(u, w) == RowsFor(u, w) # {}

\* the object key "{user_id}/{week_start}_vinyl.png"
Filename(u, w) == <<u, w>>

BlobExists(key) == \E b \in blobs : b.key = key

NewRow(u, w, url) ==
    [id |-> nextId, user_id |-> u, week_start |-> w, week_end |-> w + 6,
     vinyl_disk_url |-> url, song_count |-> 0, is_complete |-> FALSE]

\* ------------------------------------------------------------------- Init
AlbumInit ==
    /\ imgCfg \in {c \in [gemini : BOOLEAN, openai : BOOLEAN] : c.gemini \/ c.openai}
    /\ albums = {}
    /\ blobs = {}
    /\ nextId = 1
    /\ pc = [p \in Procs |-> "idle"]
    /\ user_id = [p \in Procs |-> 0]
    /\ refDate = [p \in Procs |-> 0]
    /\ week_start = [p \in Procs |-> 0]
    /\ artwork = [p \in Procs |-> "none"]
    /\ image_failed = [p \in Procs |-> FALSE]
    /\ imgLog = [p \in Procs |-> <<>>]
    /\ chainCalls = [p \in Procs |-> 0]
    /\ uploads = [p \in Procs |-> <<>>]
    /\ ret = [p \in Procs |-> 0]
    /\ retFlag = [p \in Procs |-> FALSE]
    /\ err = [p \in Procs |-> "none"]
    /\ conflict = [p \in Procs |-> FALSE]
    /\ pred = [p \in Procs |-> {}]


\* ------------------------------------------- get_or_create_weekly_album
\* a create path that goes straight to the insert
CreateEntryAtInsert(c) == "insert"

\* where _create_new_album goes after a lookup miss
CreateEntry(c) ==
    IF c THEN "vinyl"
    ELSE IF imgCfg.gemini THEN "gemini"
    ELSE IF imgCfg.openai THEN "dalle"
    ELSE "placeholder"

\* get_or_create_weekly_album up to the lookup's answer: week boundaries,
\* _get_album_by_week, and the return of an existing album
Lookup(p) ==
    /\ pc[p] = "idle"
    /\ \E u \in {UserOf(p)}, d \in RefDays, t \in 0..MaxMicro, c \in BOOLEAN, lookupFails \in BOOLEAN :
        LET ws == get_week_boundaries([day |-> d, us |-> t])[1].day
            rows == RowsFor(u, ws)
            \* .single() raises unless exactly one row matches; any exception is None
            existing == IF lookupFails \/ Cardinality(rows) # 1 THEN {} ELSE rows
        IN  /\ user_id' = [user_id EXCEPT ![p] = u]
            /\ refDate' = [refDate EXCEPT ![p] = d]
            /\ week_start' = [week_start EXCEPT ![p] = ws]
            /\ pred' = [pred EXCEPT ![p] = {q \in Procs : pc[q] = "returned"}]
            /\ IF existing # {}
               THEN /\ pc' = [pc EXCEPT ![p] = "returned"]
                    /\ ret' = [ret EXCEPT ![p] = (CHOOSE r \in existing : TRUE).id]
                    /\ retFlag' = [retFlag EXCEPT ![p] = FALSE]
                    /\ UNCHANGED <<artwork, image_failed, chainCalls>>
               ELSE /\ pc' = [pc EXCEPT ![p] = CreateEntry(c)]
                    /\ artwork' = [artwork EXCEPT ![p] = IF c THEN "custom" ELSE "none"]
                    /\ image_failed' = [image_failed EXCEPT ![p] = FALSE]
                    /\ chainCalls' = [chainCalls EXCEPT ![p] = IF c THEN 0 ELSE 1]
                    /\ UNCHANGED <<ret, retFlag>>
    /\ UNCHANGED <<llmVars, weekVars, newsVars, vinylVars, songVars>>
    /\ UNCHANGED <<imgCfg, albums, blobs, nextId, imgLog, uploads, err, conflict>>

\* ------------------------------- ImageGenerationService.generate_album_artwork
\* a failed Gemini attempt that is tried again
AfterGeminiFailureRetry == "gemini"

\* where generate_album_artwork goes after a failed Gemini attempt
AfterGeminiFailure == IF imgCfg.openai THEN "dalle" ELSE "placeholder"

\* the Gemini attempt: success returns (image_data, False)
TryGemini(p) ==
    /\ pc[p] = "gemini"
    /\ \E ok \in BOOLEAN :
        /\ imgLog' = [imgLog EXCEPT ![p] = Append(@, [prov |-> "gemini", ok |-> ok])]
        /\ IF ok
           THEN /\ artwork' = [artwork EXCEPT ![p] = "gemini"]
                /\ image_failed' = [image_failed EXCEPT ![p] = FALSE]
                /\ pc' = [pc EXCEPT ![p] = "vinyl"]
           ELSE /\ pc' = [pc EXCEPT ![p] = AfterGeminiFailure]
                /\ UNCHANGED <<artwork, image_failed>>
    /\ UNCHANGED <<llmVars, weekVars, newsVars, vinylVars, songVars>>
    /\ UNCHANGED <<imgCfg, albums, blobs, nextId, user_id, refDate, week_start,
                   chainCalls, uploads, ret, retFlag, err, conflict, pred>>

\* the DALL-E attempt
TryDalle(p) ==
    /\ pc[p] = "dalle"
    /\ \E ok \in BOOLEAN :
        /\ imgLog' = [imgLog EXCEPT ![p] = Append(@, [prov |-> "dalle", ok |-> ok])]
        /\ IF ok
           THEN /\ artwork' = [artwork EXCEPT ![p] = "dalle"]
                /\ image_failed' = [image_failed EXCEPT ![p] = FALSE]
                /\ pc' = [pc EXCEPT ![p] = "vinyl"]
           ELSE /\ pc' = [pc EXCEPT ![p] = "placeholder"]
                /\ UNCHANGED <<artwork, image_failed>>
    /\ UNCHANGED <<llmVars, weekVars, newsVars, vinylVars, songVars>>
    /\ UNCHANGED <<imgCfg, albums, blobs, nextId, user_id, refDate, week_start,
                   chainCalls, uploads, ret, retFlag, err, conflict, pred>>

\* a placeholder handed back without the flag
PlaceholderFlagDropped == FALSE

\* the flag generate_album_artwork returns with the placeholder
PlaceholderFlag == TRUE

\* the final fallback: (_generate_default_placeholder(), True)
UsePlaceholder(p) ==
    /\ pc[p] = "placeholder"
    /\ artwork' = [artwork EXCEPT ![p] = "placeholder"]
    /\ image_failed' = [image_failed EXCEPT ![p] = PlaceholderFlag]
    /\ pc' = [pc EXCEPT ![p] = "vinyl"]
    /\ UNCHANGED <<llmVars, weekVars, newsVars, vinylVars, songVars>>
    /\ UNCHANGED <<imgCfg, albums, blobs, nextId, user_id, refDate, week_start,
                   imgLog, chainCalls, uploads, ret, retFlag, err, conflict, pred>>

\* -------------------------------------------------------- _create_new_album
\* an exception leaves get_or_create_weekly_album: the call's frame is dropped
Raise(p, where, isConflict) ==
    /\ pc' = [pc EXCEPT ![p] = "raised"]
    /\ err' = [err EXCEPT ![p] = where]
    /\ conflict' = [conflict EXCEPT ![p] = isConflict]
    /\ refDate' = [refDate EXCEPT ![p] = 0]
    /\ artwork' = [artwork EXCEPT ![p] = "none"]
    /\ image_failed' = [image_failed EXCEPT ![p] = FALSE]
    /\ imgLog' = [imgLog EXCEPT ![p] = <<>>]

\* the call moves on to its next step
Goto(p, where) ==
    /\ pc' = [pc EXCEPT ![p] = where]
    /\ UNCHANGED <<err, conflict, refDate, artwork, image_failed, imgLog>>

\* a create path that inserts the row without uploading the disk
AfterVinylTransformInserts == "insert"

\* _create_new_album hands the vinyl data to _upload_vinyl_disk before it
\* builds album_data
AfterVinylTransform == "upload"

\* vinyl_service.create_vinyl_disk(artwork_data): Image.open may raise
VinylTransform(p) ==
    /\ pc[p] = "vinyl"
    /\ \E ok \in BOOLEAN :
        IF ok THEN Goto(p, AfterVinylTransform) ELSE Raise(p, "vinyl", FALSE)
    /\ UNCHANGED <<llmVars, weekVars, newsVars, vinylVars, songVars>>
    /\ UNCHANGED <<imgCfg, albums, blobs, nextId, user_id, week_start,
                   chainCalls, uploads, ret, retFlag, pred>>

\* one request of _upload_vinyl_disk to the bucket, for the record of the call
StorageRequest(p, op, result) ==
    uploads' = [uploads EXCEPT ![p] = Append(@, [op |-> op, result |-> result])]

\* a first upload whose every failure is followed by remove and retry
AfterAnyUploadFailureRetries(result) == "remove"

\* `except Exception as upload_error`: only "already exists" / "409" is
\* followed by remove and retry, any other error is raised again
AfterFirstUploadFailure(result) == IF result = "conflict" THEN "remove" ELSE "raised"

\* _upload_vinyl_disk, first upload: the bucket answers 409 when the key
\* exists; the request can also fail for another reason
Upload(p) ==
    /\ pc[p] = "upload"
    /\ LET key == Filename(user_id[p], week_start[p])
       IN  \E answered \in BOOLEAN :
            LET result == IF ~answered THEN "error"
                          ELSE IF BlobExists(key) THEN "conflict" ELSE "ok"
            IN  /\ StorageRequest(p, "upload", result)
                /\ IF result = "ok"
                   THEN /\ blobs' = blobs \cup {[key |-> key, data |-> artwork[p]]}
                        /\ Goto(p, "insert")
                   ELSE IF AfterFirstUploadFailure(result) = "remove"
                   THEN /\ Goto(p, "remove")
                        /\ UNCHANGED blobs
                   ELSE /\ Raise(p, "upload", FALSE)
                        /\ UNCHANGED blobs
    /\ UNCHANGED <<llmVars, weekVars, newsVars, vinylVars, songVars>>
    /\ UNCHANGED <<imgCfg, albums, nextId, user_id, week_start,
                   chainCalls, ret, retFlag, pred>>

\* _upload_vinyl_disk after a 409: remove([filename]), a failure is ignored
Remove(p) ==
    /\ pc[p] = "remove"
    /\ LET key == Filename(user_id[p], week_start[p])
       IN  \E ok \in BOOLEAN :
            /\ blobs' = IF ok THEN {b \in blobs : b.key # key} ELSE blobs
            /\ StorageRequest(p, "remove", IF ok THEN "ok" ELSE "error")
    /\ Goto(p, "retry")
    /\ UNCHANGED <<llmVars, weekVars, newsVars, vinylVars, songVars>>
    /\ UNCHANGED <<imgCfg, albums, nextId, user_id, week_start,
                   chainCalls, ret, retFlag, pred>>

\* _upload_vinyl_disk, the retry: any failure raises "Failed to upload vinyl disk"
RetryUpload(p) ==
    /\ pc[p] = "retry"
    /\ LET key == Filename(user_id[p], week_start[p])
       IN  \E answered \in BOOLEAN :
            LET result == IF ~answered THEN "error"
                          ELSE IF BlobExists(key) THEN "conflict" ELSE "ok"
            IN  /\ StorageRequest(p, "upload", result)
                /\ IF result = "ok"
                   THEN /\ blobs' = blobs \cup {[key |-> key, data |-> artwork[p]]}
                        /\ Goto(p, "insert")
                   ELSE /\ Raise(p, "upload", FALSE)
                        /\ UNCHANGED blobs
    /\ UNCHANGED <<llmVars, weekVars, newsVars, vinylVars, songVars>>
    /\ UNCHANGED <<imgCfg, albums, nextId, user_id, week_start,
                   chainCalls, ret, retFlag, pred>>

\* supabase.table("albums").insert(album_data).execute() and the return
Insert(p) ==
    /\ pc[p] = "insert"
    /\ IF InsertConflicts(user_id[p], week_start[p])
       THEN \* the store rejects the row; the exception leaves _create_new_album
            /\ Raise(p, "insert", TRUE)
            /\ UNCHANGED <<albums, nextId, ret, retFlag>>
       ELSE \E ok \in BOOLEAN :
            IF ok
            THEN /\ albums' = albums \cup
                        {NewRow(user_id[p], week_start[p],
                                Filename(user_id[p], week_start[p]))}
                 /\ nextId' = nextId + 1
                 /\ Goto(p, "returned")
                 /\ ret' = [ret EXCEPT ![p] = nextId]
                 /\ retFlag' = [retFlag EXCEPT ![p] = image_failed[p]]
            ELSE /\ Raise(p, "insert", FALSE)
                 /\ UNCHANGED <<albums, nextId, ret, retFlag>>
    /\ UNCHANGED <<llmVars, weekVars, newsVars, vinylVars, songVars>>
    /\ UNCHANGED <<imgCfg, blobs, user_id, week_start,
                   chainCalls, uploads, pred>>

NextAlbum ==
    \E p \in Procs :
        \/ Lookup(p)
        \/ TryGemini(p)
        \/ TryDalle(p)
        \/ UsePlaceholder(p)
        \/ VinylTransform(p)
        \/ Upload(p)
        \/ Remove(p)
        \/ RetryUpload(p)
        \/ Insert(p)


\* =============================================================== LLM content
\* ------------------------------------------------------------ raw responses
\* A response is its lines and the JSON value the "J" line holds. FENCE stands
\* for three backticks: "FENCEjson" and "FENCE" are fence lines, "J" is the
\* JSON text, "FENCE_J_FENCE" is a fence and the JSON text on one line.
Layouts == { <<"J">>, <<"FENCEjson", "J", "FENCE">>, <<"FENCEjson", "J">>,
             <<"FENCE", "J", "FENCE">>, <<"FENCE_J_FENCE">>, <<"J", "FENCE">> }

\* lyrics are a sequence of section markers and other text
LyricTokens == {"[verse]", "[VERSE]", "[chorus]", "[bridge]", "[outro]", "[intro]", "la"}
\* genre_tags are a sequence of word characters and spaces
TagChars == {"t", " "}

SeqsUpTo(S, n) == UNION {[1..k -> S] : k \in 0..n}

RequiredFields == <<"genre_tags", "lyrics", "title", "description">>
FieldSet == {RequiredFields[i] : i \in 1..Len(RequiredFields)}

GoodLyrics == <<"[verse]", "la", "[chorus]">>
GoodTags == <<"t", " ", "t", " ", "t">>

\* kind: what the JSON text parses to ("invalid": json.loads raises);
\* has: the keys of the object; lyricsStr / tagsStr: whether the value is a string
Payload(k, h, l, ls, g, gs) ==
    [kind |-> k, has |-> h, lyrics |-> l, lyricsStr |-> ls, tags |-> g, tagsStr |-> gs]

NoData == Payload("none", {}, <<>>, FALSE, <<>>, FALSE)
NoResp == [lines |-> <<>>, payload |-> NoData]

Responses ==
    {[lines |-> <<"J">>, payload |-> Payload("object", FieldSet, l, TRUE, g, TRUE)] :
        l \in SeqsUpTo(LyricTokens, MaxLyricLen), g \in SeqsUpTo(TagChars, MaxTagLen)}
    \cup
    {[lines |-> w, payload |-> Payload("object", FieldSet, l, TRUE, GoodTags, TRUE)] :
        w \in Layouts, l \in {GoodLyrics, <<"[verse]">>}}
    \cup
    {[lines |-> <<"J">>, payload |-> Payload(k, h, GoodLyrics, ls, GoodTags, gs)] :
        k \in {"object", "array", "invalid"}, h \in SUBSET FieldSet,
        ls \in BOOLEAN, gs \in BOOLEAN}

\* ------------------------------------------- _parse_and_validate_response
StartsWithFence(line) == line \in {"FENCEjson", "FENCE", "FENCE_J_FENCE"}

DropLast(sq) == SubSeq(sq, 1, Len(sq) - 1)

\* the markdown clean-up: drop the first line of a fenced response, and a
\* closing "FENCE" line
Clean(lines) ==
    IF lines # <<>> /\ StartsWithFence(lines[1])
    THEN LET rest == Tail(lines)
         IN  IF rest # <<>> /\ rest[Len(rest)] = "FENCE" THEN DropLast(rest) ELSE rest
    ELSE lines

\* json.loads succeeds on exactly the JSON text
JsonLoads(cleaned, payload) == cleaned = <<"J">> /\ payload.kind # "invalid"

\* str.lower() of one token
Lower(tok) == IF tok = "[VERSE]" THEN "[verse]" ELSE tok

\* str.count(marker) on the lyrics as written
CountMarkerCaseSensitive(lyrics, marker) ==
    Cardinality({i \in 1..Len(lyrics) : lyrics[i] = marker})

\* str.count(marker) on the lower-cased lyrics
CountMarker(lyrics, marker) ==
    Cardinality({i \in 1..Len(lyrics) : Lower(lyrics[i]) = marker})

\* len(genre_tags.strip().split()): the maximal runs of non-space characters
ComponentCount(tags) ==
    Cardinality({i \in 1..Len(tags) : tags[i] # " " /\ (i = 1 \/ tags[i - 1] = " ")})

Verdict(ok, why, data) == [ok |-> ok, why |-> why, data |-> data]

NoOut == Verdict(FALSE, "pending", NoData)

FirstMissing(has) ==
    LET missing == {i \in 1..Len(RequiredFields) : RequiredFields[i] \notin has}
    IN  IF missing = {} THEN "none"
        ELSE RequiredFields[CHOOSE i \in missing : \A j \in missing : i <= j]

\* the lyric structure checks with the upper limits left out
LyricsVerdictNoUpperLimit(lyrics) ==
    LET verse_count == CountMarker(lyrics, "[verse]")
        chorus_count == CountMarker(lyrics, "[chorus]")
        bridge_count == CountMarker(lyrics, "[bridge]")
        outro_count == CountMarker(lyrics, "[outro]")
        intro_count == CountMarker(lyrics, "[intro]")
    IN  IF verse_count < 1 THEN "Lyrics missing [verse] section"
        ELSE IF chorus_count < 1 THEN "Lyrics missing [chorus] section"
        ELSE IF bridge_count > 0 \/ outro_count > 0 \/ intro_count > 0
             THEN "Extra sections not allowed"
        ELSE "ok"

\* the lyric structure checks of _parse_and_validate_response
LyricsVerdict(lyrics) ==
    LET verse_count == CountMarker(lyrics, "[verse]")
        chorus_count == CountMarker(lyrics, "[chorus]")
        bridge_count == CountMarker(lyrics, "[bridge]")
        outro_count == CountMarker(lyrics, "[outro]")
        intro_count == CountMarker(lyrics, "[intro]")
    IN  IF verse_count < 1 THEN "Lyrics missing [verse] section"
        ELSE IF chorus_count < 1 THEN "Lyrics missing [chorus] section"
        ELSE IF verse_count > 1 THEN "Too many verses"
        ELSE IF chorus_count > 1 THEN "Too many choruses"
        ELSE IF bridge_count > 0 \/ outro_count > 0 \/ intro_count > 0
             THEN "Extra sections not allowed"
        ELSE "ok"

\* _parse_and_validate_response: the parsed data, or the ValueError it raises
Validate(resp) ==
    LET cleaned == Clean(resp.lines)
        data == resp.payload
    IN  IF ~JsonLoads(cleaned, data) THEN Verdict(FALSE, "Invalid JSON response", NoData)
        ELSE IF data.kind # "object"
             THEN Verdict(FALSE, "Validation failed", NoData)
        ELSE IF FirstMissing(data.has) # "none"
             THEN Verdict(FALSE, "Missing required field", NoData)
        ELSE IF ~data.lyricsStr THEN Verdict(FALSE, "Validation failed", NoData)
        ELSE IF LyricsVerdict(data.lyrics) # "ok"
             THEN Verdict(FALSE, LyricsVerdict(data.lyrics), NoData)
        ELSE IF ~data.tagsStr THEN Verdict(FALSE, "Validation failed", NoData)
        ELSE IF ComponentCount(data.tags) < 3
             THEN Verdict(FALSE, "Genre tags must have at least 3 components", NoData)
        ELSE Verdict(TRUE, "ok", data)

\* one call of _parse_and_validate_response
ValidateResponse ==
    /\ vOut = NoOut
    /\ vOut' = Validate(vResp)
    /\ UNCHANGED <<vResp, llmCfg, llmPc, llmLog, llmResp, llmRet, llmErr, albumVars, weekVars, newsVars, vinylVars, songVars>>


\* --------------------------------------- LLMService.generate_song_content
\* what a provider call can come back with: an exception, or a raw response
LlmOutcomes == {[raised |-> TRUE, resp |-> CHOOSE r \in Responses : TRUE]} \cup
               {[raised |-> FALSE, resp |-> r] : r \in Responses}

\* how one attempt ended, for the log
AttemptResult(o) ==
    IF o.raised THEN "exception"
    ELSE IF Validate(o.resp).ok THEN "accepted" ELSE "rejected"

\* exhaustion that hands back a value instead of raising
ExhaustedReturns == "returned"

\* every attempted provider failed: the call raises
Exhausted == "raised"

\* the call starts: the prompt is built and the first configured provider is next
GenerateSongContent ==
    /\ llmPc = "idle"
    /\ llmPc' = IF llmCfg.openai THEN "openai" ELSE "gemini"
    /\ UNCHANGED <<vResp, vOut, llmCfg, llmLog, llmResp, llmRet, llmErr, albumVars, weekVars, newsVars, vinylVars, songVars>>

\* a rejected response that ends the call instead of reaching the fallback
AfterPrimaryRejectionRaises(res) ==
    IF llmCfg.gemini /\ res # "rejected" THEN "gemini" ELSE Exhausted

\* `except Exception` around the OpenAI attempt: whatever it raised, the call
\* goes on to the Gemini block
AfterPrimaryFailure(res) == IF llmCfg.gemini THEN "gemini" ELSE Exhausted

\* the OpenAI attempt: _call_openai, then _parse_and_validate_response
TryOpenAI ==
    /\ llmPc = "openai"
    /\ \E o \in LlmOutcomes :
        LET res == AttemptResult(o)
        IN  /\ llmLog' = Append(llmLog, [prov |-> "openai", result |-> res,
                                           resp |-> IF res = "accepted" THEN o.resp ELSE NoResp])
            /\ IF res = "accepted"
               THEN /\ llmPc' = "returned"
                    /\ llmResp' = o.resp
                    /\ llmRet' = Validate(o.resp).data
                    /\ UNCHANGED llmErr
               ELSE /\ llmPc' = AfterPrimaryFailure(res)
                    /\ llmErr' = IF llmCfg.gemini THEN llmErr ELSE "No service available"
                    /\ UNCHANGED <<llmResp, llmRet>>
    /\ UNCHANGED <<vResp, vOut, llmCfg, albumVars, weekVars, newsVars, vinylVars, songVars>>

\* the Gemini attempt: _call_gemini, then _parse_and_validate_response
TryGeminiLLM ==
    /\ llmPc = "gemini"
    /\ \E o \in LlmOutcomes :
        LET res == AttemptResult(o)
        IN  /\ llmLog' = Append(llmLog, [prov |-> "gemini", result |-> res,
                                           resp |-> IF res = "accepted" THEN o.resp ELSE NoResp])
            /\ IF res = "accepted"
               THEN /\ llmPc' = "returned"
                    /\ llmResp' = o.resp
                    /\ llmRet' = Validate(o.resp).data
                    /\ UNCHANGED llmErr
               ELSE /\ llmPc' = Exhausted
                    /\ llmErr' = "All services failed"
                    /\ UNCHANGED <<llmResp, llmRet>>
    /\ UNCHANGED <<vResp, vOut, llmCfg, albumVars, weekVars, newsVars, vinylVars, songVars>>

NextLLM == GenerateSongContent \/ TryOpenAI \/ TryGeminiLLM


\* ======================================================================= news
\* ------------------------------------------------------------------ articles
\* an article is its title; "A" and "a " are different titles of one story
Titles == {"A", "a ", "B"}

\* article.title.lower().strip()
NormalizedTitle(t) == IF t \in {"A", "a "} THEN "a" ELSE "b"

\* a category is a string, written as its characters
CatA == <<"a">>
CatB == <<"b">>
CategoryLists == {<<CatA>>, <<CatA, CatB>>, <<CatB, CatA>>}
Locations == {"US"}

\* the order of characters in str comparison
CharRank(c) == IF c = "," THEN 44 ELSE IF c = "a" THEN 97 ELSE 98

RECURSIVE StrLess(_, _)
StrLess(x, y) ==
    IF y = <<>> THEN FALSE
    ELSE IF x = <<>> THEN TRUE
    ELSE IF CharRank(Head(x)) # CharRank(Head(y)) THEN CharRank(Head(x)) < CharRank(Head(y))
    ELSE StrLess(Tail(x), Tail(y))

RECURSIVE InsertSorted(_, _)
InsertSorted(x, sq) ==
    IF sq = <<>> THEN <<x>>
    ELSE IF StrLess(x, Head(sq)) THEN <<x>> \o sq
    ELSE <<Head(sq)>> \o InsertSorted(x, Tail(sq))

\* sorted(user_categories)
RECURSIVE Sorted(_)
Sorted(sq) == IF sq = <<>> THEN <<>> ELSE InsertSorted(sq[Len(sq)], Sorted(DropLast(sq)))

\* ','.join(...)
RECURSIVE Join(_)
Join(sq) ==
    IF sq = <<>> THEN <<>>
    ELSE IF Len(sq) = 1 THEN sq[1]
    ELSE sq[1] \o <<",">> \o Join(Tail(sq))

\* a key that joins the categories in the order they were given
CacheKeyUnsorted(cats, loc, max) == <<Join(cats), loc, max>>

\* cache_key: the three parts of the formatted string
CacheKey(cats, loc, max) == <<Join(Sorted(cats)), loc, max>>

cache_ttl == 3600

\* the clock is read in steps of half the time to live
TickStep == cache_ttl \div 2

\* sq[:n]
Slice(sq, n) ==
    IF n >= 0 THEN SubSeq(sq, 1, IF n < Len(sq) THEN n ELSE Len(sq))
    ELSE SubSeq(sq, 1, IF Len(sq) + n > 0 THEN Len(sq) + n ELSE 0)

\* the largest power of two below k
Pow2Below(k) == CHOOSE q \in {2^e : e \in 0..29} : q < k /\ 2 * q >= k

\* int(max_articles * 0.7) in double arithmetic: 0.7 is stored a little below
\* seven tenths, so a product that should be a whole number k comes out as k
\* or as the double just below it
PreferredCount(max) ==
    LET k == (7 * max) \div 10
    IN  IF max > 0 /\ max % 10 = 0 /\ 4 * (max \div 10) > Pow2Below(k) THEN k - 1 ELSE k

\* a general pool that is asked for its 30 percent of max_articles
GeneralCountAsShare(max) == (3 * max) \div 10

\* general_count = max_articles - preferred_count
GeneralCount(max) == max - PreferredCount(max)

\* _deduplicate_articles
RECURSIVE Dedup(_, _)
Dedup(articles, seen_titles) ==
    IF articles = <<>> THEN <<>>
    ELSE LET normalized_title == NormalizedTitle(Head(articles))
         IN  IF normalized_title \notin seen_titles
             THEN <<Head(articles)>> \o Dedup(Tail(articles), seen_titles \cup {normalized_title})
             ELSE Dedup(Tail(articles), seen_titles)

\* a deduplication that compares the titles as they are written
DeduplicateByRawTitle(articles) ==
    LET RECURSIVE Raw(_, _)
        Raw(rest, seen) ==
            IF rest = <<>> THEN <<>>
            ELSE IF Head(rest) \notin seen
                 THEN <<Head(rest)>> \o Raw(Tail(rest), seen \cup {Head(rest)})
                 ELSE Raw(Tail(rest), seen)
    IN  Raw(articles, {})

_deduplicate_articles(articles) == Dedup(articles, {})

\* ----------------------------------------------------------------- providers
NewsProviders == <<"serpapi", "newsapi", "worldnews">>

Configured(prov) ==
    IF prov = "serpapi" THEN newsCfg.serpapi
    ELSE IF prov = "newsapi" THEN newsCfg.newsapi
    ELSE newsCfg.worldnews

\* the first provider from position i on whose key is set
ProviderFrom(i) ==
    LET later == {j \in i..Len(NewsProviders) : Configured(NewsProviders[j])}
    IN  IF later = {} THEN "none"
        ELSE NewsProviders[CHOOSE j \in later : \A k \in later : j <= k]

ProviderAfter(prov) ==
    ProviderFrom(1 + CHOOSE j \in 1..Len(NewsProviders) : NewsProviders[j] = prov)

\* what a provider call can come back with: an exception, or the items of the
\* response body
NewsOutcomes == {[raised |-> TRUE, raw |-> <<>>]} \cup
                {[raised |-> FALSE, raw |-> r] : r \in SeqsUpTo(Titles, MaxRaw)}

\* a fetcher that passes on every item of the response
FetchedUnsliced(raw, count) == raw

\* _fetch_from_serpapi / _fetch_from_newsapi / _fetch_from_worldnews: the
\* first count items of the response become articles
Fetched(raw, count) == Slice(raw, count)

\* the request a cache entry was stored for: its categories (as a set), its
\* location and its max_articles
RequestOf(args) ==
    [cats |-> {args.cats[i] : i \in DOMAIN args.cats}, loc |-> args.loc, max |-> args.max]

\* a cache that keeps only results that hold articles
CacheStoreUnlessEmpty(key, articles) ==
    IF articles = <<>> THEN cache
    ELSE {e \in cache : e.key # key} \cup
         {[key |-> key, articles |-> articles, time |-> now, request |-> RequestOf(newsArgs)]}

\* self.cache[cache_key] = (articles, time.time()); each entry also remembers
\* the request that stored it
CacheStore(key, articles) ==
    {e \in cache : e.key # key} \cup
    {[key |-> key, articles |-> articles, time |-> now, request |-> RequestOf(newsArgs)]}

\* _fetch_with_fallback returns: the preferred pool is followed by the general
\* pool, the general pool by the rest of fetch_news
ChainReturns(articles, log) ==
    /\ newsLog' = log
    /\ IF newsPc = "preferred"
       THEN /\ preferred_articles' = articles
            /\ newsPc' = "general"
            /\ newsProv' = ProviderFrom(1)
            /\ UNCHANGED general_articles
       ELSE /\ general_articles' = articles
            /\ newsPc' = "combine"
            /\ newsProv' = "none"
            /\ UNCHANGED preferred_articles

\* fetch_news up to the first provider call
FetchNews ==
    /\ newsPc = "idle"
    /\ fetches < MaxFetches
    /\ \E cats \in CategoryLists, loc \in Locations, max \in 0..MaxArticles :
        LET cache_key == CacheKey(cats, loc, max)
            hits == {e \in cache : e.key = cache_key /\ now - e.time < cache_ttl}
        IN  /\ newsArgs' = [cats |-> cats, loc |-> loc, max |-> max]
            /\ IF hits # {}
               THEN /\ newsRet' = (CHOOSE e \in hits : TRUE).articles
                    /\ newsHit' = TRUE
                    /\ UNCHANGED <<newsPc, newsProv>>
               ELSE /\ newsPc' = IF ProviderFrom(1) = "none" THEN "combine" ELSE "preferred"
                    /\ newsProv' = ProviderFrom(1)
                    /\ newsRet' = <<>>
                    /\ newsHit' = FALSE
    /\ fetches' = fetches + 1
    /\ newsLog' = <<>>
    /\ preferred_articles' = <<>>
    /\ general_articles' = <<>>
    /\ UNCHANGED <<newsCfg, cache, now, ticks, distVars,
                   albumVars, llmVars, weekVars, vinylVars, songVars>>

\* a chain that makes up an article when no provider delivered
AllFailedFilledIn == <<"A">>

\* "All news APIs failed": return []
AllFailed == <<>>

\* a chain that hands back whatever a provider returned without raising
ProviderReturnsAnyList(raised, articles) == ~raised

\* `if articles: return articles` inside the try block of a provider
ProviderReturns(raised, articles) == ~raised /\ articles # <<>>

\* one provider attempt of _fetch_with_fallback; the log starts again with
\* each invocation of _fetch_with_fallback
TryProvider(prov) ==
    /\ newsPc \in {"preferred", "general"}
    /\ newsProv = prov
    /\ \E o \in NewsOutcomes :
        LET count == IF newsPc = "preferred" THEN PreferredCount(newsArgs.max)
                     ELSE GeneralCount(newsArgs.max)
            articles == IF o.raised THEN <<>> ELSE Fetched(o.raw, count)
            result == IF o.raised THEN "raised"
                      ELSE IF articles = <<>> THEN "empty" ELSE "articles"
            sofar == IF newsLog # <<>> /\ newsLog[1].pool # newsPc THEN <<>> ELSE newsLog
            log == Append(sofar, [pool |-> newsPc, prov |-> prov,
                                  result |-> result, articles |-> articles])
        IN  IF ProviderReturns(o.raised, articles) THEN ChainReturns(articles, log)
            ELSE IF ProviderAfter(prov) # "none"
            THEN /\ newsProv' = ProviderAfter(prov)
                 /\ newsLog' = log
                 /\ UNCHANGED <<newsPc, preferred_articles, general_articles>>
            ELSE ChainReturns(AllFailed, log)
    /\ UNCHANGED <<newsCfg, cache, now, ticks, fetches, newsArgs, newsRet, newsHit, distVars,
                   albumVars, llmVars, weekVars, vinylVars, songVars>>

TrySerpAPI == TryProvider("serpapi")
TryNewsAPI == TryProvider("newsapi")
TryWorldNewsAPI == TryProvider("worldnews")

\* fetch_news from "Combine and deduplicate" to its return
Combine ==
    /\ newsPc = "combine"
    /\ LET all_articles == preferred_articles \o general_articles
           unique_articles == _deduplicate_articles(all_articles)
       IN  /\ cache' = CacheStore(CacheKey(newsArgs.cats, newsArgs.loc, newsArgs.max),
                                  unique_articles)
           /\ newsRet' = Slice(unique_articles, newsArgs.max)
    /\ newsHit' = FALSE
    /\ newsPc' = "idle"
    /\ newsLog' = <<>>
    /\ UNCHANGED <<newsCfg, now, ticks, fetches, newsArgs, newsProv, distVars,
                   preferred_articles, general_articles,
                   albumVars, llmVars, weekVars, vinylVars, songVars>>

\* the clock moves on
Tick ==
    /\ newsPc = "idle"
    /\ cache # {}
    /\ ticks < MaxTicks
    /\ now' = now + TickStep
    /\ ticks' = ticks + 1
    /\ UNCHANGED <<newsCfg, cache, fetches, newsPc, newsArgs, newsProv, newsLog, distVars,
                   preferred_articles, general_articles, newsRet, newsHit,
                   albumVars, llmVars, weekVars, vinylVars, songVars>>

NextNews == FetchNews \/ TrySerpAPI \/ TryNewsAPI \/ TryWorldNewsAPI \/ Combine \/ Tick

\* ------------------------------------------------------------- distribution
NoDistribution == [preferred_count |-> -1, general_count |-> -1]

\* "Calculate distribution" of fetch_news: the two counts it asks the chains for
CalculateDistribution ==
    /\ distIn >= 0
    /\ distOut = NoDistribution
    /\ distOut' = [preferred_count |-> PreferredCount(distIn),
                   general_count |-> GeneralCount(distIn)]
    /\ UNCHANGED <<distIn, newsCfg, cache, now, ticks, fetches, newsPc, newsArgs, newsProv,
                   newsLog, preferred_articles, general_articles, newsRet, newsHit,
                   albumVars, llmVars, weekVars, vinylVars, songVars>>


\* ================================================================= vinyl disk
\* a hole ratio is the fraction num/den; the fractions used here are the
\* literal 0.14 and fractions a double holds exactly
Ratio(n, d) == [num |-> n, den |-> d]

\* hole_ratio=None
NoRatio == Ratio(0, 0)

\* self.vinyl_hole_ratio = 0.14, and the literal 0.14 of the validation
vinyl_hole_ratio == Ratio(14, 100)

HoleRatios == {NoRatio, Ratio(0, 8), Ratio(1, 8), Ratio(14, 100), Ratio(1, 4),
               Ratio(3, 8), Ratio(1, 2), Ratio(3, 4), Ratio(-1, 4)}

\* what image_data can be: a picture without transparency, a picture that is
\* transparent, bytes that Image.open cannot read
ImageKinds == {"opaque", "clear", "unreadable"}

\* what ImageDraw.ellipse does with a bounding box of one pixel depends on
\* the Pillow build: it sets that pixel, or it draws nothing
PillowBuilds == {"point", "nothing"}

\* bool(hole_ratio)
Truthy(h) == h # NoRatio /\ h.num # 0

\* a validation that lets 0.5 through
EffectiveRatioUpToHalf(h) ==
    LET r == IF Truthy(h) THEN h ELSE vinyl_hole_ratio
    IN  IF ~(0 < r.num /\ 2 * r.num <= r.den) THEN Ratio(14, 100) ELSE r

\* hole_ratio = hole_ratio or self.vinyl_hole_ratio;
\* if not 0 < hole_ratio < 0.5: hole_ratio = 0.14
EffectiveRatio(h) ==
    LET r == IF Truthy(h) THEN h ELSE vinyl_hole_ratio
    IN  IF ~(0 < r.num /\ 2 * r.num < r.den) THEN Ratio(14, 100) ELSE r

\* an inner radius that is rounded to the nearest integer
InnerRadiusRounded(outer_radius, h) == (2 * outer_radius * h.num + h.den) \div (2 * h.den)

\* int(outer_radius * hole_ratio) for a ratio in (0, 0.5): the product with a
\* fraction a double holds exactly is exact, and the double 0.14 lies above
\* 14/100 by less than 1e-17, so that the product never falls below a whole
\* number the exact product reaches
InnerRadius(outer_radius, h) == (outer_radius * h.num) \div h.den

\* draw.ellipse([cx - r, cy - r, cx + r, cy + r], fill=...): the pixels it sets
InEllipse(x, y, cx, cy, r, pil) ==
    IF r = 0 THEN pil = "point" /\ x = cx /\ y = cy
    ELSE (x - cx) * (x - cx) + (y - cy) * (y - cy) <= r * r

Pixels(width, height) == (0..(width - 1)) \X (0..(height - 1))

\* a mask without the inner ellipse
MaskWithoutHole(size, h, pil) ==
    LET outer_radius == (IF size[1] < size[2] THEN size[1] ELSE size[2]) \div 2
    IN  [xy \in Pixels(size[1], size[2]) |->
            IF InEllipse(xy[1], xy[2], size[1] \div 2, size[2] \div 2, outer_radius, pil)
            THEN 255 ELSE 0]

\* create_vinyl_mask: 'L' image, 0 everywhere, the outer ellipse filled with
\* 255, then the inner ellipse filled with 0
create_vinyl_mask(size, h, pil) ==
    LET width == size[1]
        height == size[2]
        min_dim == IF width < height THEN width ELSE height
        outer_radius == min_dim \div 2
        center_x == width \div 2
        center_y == height \div 2
        inner_radius == InnerRadius(outer_radius, h)
    IN  [xy \in Pixels(width, height) |->
            IF InEllipse(xy[1], xy[2], center_x, center_y, inner_radius, pil) THEN 0
            ELSE IF InEllipse(xy[1], xy[2], center_x, center_y, outer_radius, pil) THEN 255
            ELSE 0]

NoDisk == [raised |-> "none", mode |-> "none", width |-> 0, height |-> 0,
           alpha |-> <<>>, hole_ratio |-> NoRatio]

\* VinylDiskService.create_vinyl_disk: the alpha band of the PNG it returns.
\* paste(img_resized, (0, 0), mask) copies the bands of the artwork, alpha
\* included, where the mask is 255 and keeps (0, 0, 0, 0) where it is 0
create_vinyl_disk(args) ==
    LET disk_size == args.disk_size
        hole_ratio == EffectiveRatio(args.hole_ratio)
    IN  IF args.image = "unreadable"
        THEN [NoDisk EXCEPT !.raised = "Image.open", !.hole_ratio = hole_ratio]
        ELSE LET mask == create_vinyl_mask(<<disk_size, disk_size>>, hole_ratio, args.pil)
                 art == IF args.image = "opaque" THEN 255 ELSE 0
             IN  [raised |-> "none", mode |-> "RGBA",
                  width |-> disk_size, height |-> disk_size,
                  alpha |-> [xy \in DOMAIN mask |-> IF mask[xy] = 255 THEN art ELSE 0],
                  hole_ratio |-> hole_ratio]

NoVinylArgs == [disk_size |-> 0, hole_ratio |-> NoRatio, image |-> "none", pil |-> "none"]

\* one call of create_vinyl_disk
CreateVinylDisk ==
    /\ vdIn # NoVinylArgs
    /\ vdOut = NoDisk
    /\ vdOut' = create_vinyl_disk(vdIn)
    /\ UNCHANGED <<vdIn, albumVars, llmVars, weekVars, newsVars, songVars>>


\* ====================================================================== songs
\* the clients sending generate_song requests, the callers of
\* check_album_completion
Clients == Procs
Checkers == 1..NumCheckers

\* daily_limit = config['song_generation']['daily_limit_per_user']; the value is
\* read from config_file.json, and one song a day is what a week of seven songs
\* goes with
daily_limit == 1

\* the week all requests fall in, and the user they come from
ThisWeek == get_week_boundaries([day |-> FirstDay, us |-> 0])[1].day
ThisUser == UserOf(1)

\* the album row of that week with k songs
AlbumRowWith(k) ==
    [id |-> 1, user_id |-> ThisUser, week_start |-> ThisWeek, week_end |-> ThisWeek + 6,
     vinyl_disk_url |-> Filename(ThisUser, ThisWeek), song_count |-> k,
     is_complete |-> FALSE]

\* the songs a user under the daily limit has made on the earlier days of a week
EarlierSongs == 0..(6 * daily_limit)

\* Album(**row): song_count: int = Field(default=0, ge=0, le=7)
AlbumLoads(row) == row.song_count >= 0 /\ row.song_count <= 7

\* the trigger of the songs table: an inserted or deleted song row moves the
\* song_count of its album by one
SongCountTrigger(album_id, delta) ==
    {IF r.id = album_id THEN [r EXCEPT !.song_count = @ + delta] ELSE r : r \in albums}

\* every check_album_completion call that has read and not yet written sees,
\* from here on, a song_count that is no longer the stored one
SongCountMoved ==
    [c \in Checkers |-> IF chkPc[c] = "read" THEN [chk[c] EXCEPT !.changed = TRUE]
                        ELSE chk[c]]

albumCallVars == <<imgCfg, blobs, pc, user_id, refDate, week_start, artwork,
                   image_failed, imgLog, chainCalls, uploads, ret, retFlag, err,
                   conflict, pred>>

\* --------------------------------------------------------- generate_song
\* the request ends in an HTTP error raised at this step
RequestFails(p, step) ==
    /\ gsPc' = [gsPc EXCEPT ![p] = "error"]
    /\ gsErr' = [gsErr EXCEPT ![p] = step]

\* the status of the response: every exception raised inside the try block,
\* the HTTPException(429) of the daily limit among them, is caught by
\* `except Exception` and answered with HTTPException(status_code=500)
ResponseStatus(step) == IF step = "none" THEN 200 ELSE 500

\* generate_song up to the album: the daily limit, the context data, the
\* lyrics
StartGenerateSong(p) ==
    /\ gsPc[p] \in {"idle", "done", "error"}
    /\ gsCalls[p] < MaxRequests
    /\ gsCalls' = [gsCalls EXCEPT ![p] = @ + 1]
    /\ gsAlbum' = [gsAlbum EXCEPT ![p] = 0]
    /\ gsWrote' = [gsWrote EXCEPT ![p] = FALSE]
    /\ LET songs_today == songs.today
       IN  \E ok \in BOOLEAN :
            IF songs_today >= daily_limit THEN RequestFails(p, "limit")
            ELSE IF ~ok THEN RequestFails(p, "content")
            ELSE /\ gsPc' = [gsPc EXCEPT ![p] = "album"]
                 /\ gsErr' = [gsErr EXCEPT ![p] = "none"]
    /\ UNCHANGED <<songs, chkPc, chk, chkRet, chkWrote, chkCalls, deletes>>
    /\ UNCHANGED <<albumVars, llmVars, weekVars, newsVars, vinylVars>>

\* a request that goes on to the song although no album came back
AfterAlbumFailureGoesOn == "record"

\* an exception of get_or_create_weekly_album reaches `except Exception`
AfterAlbumFailure == "error"

\* Step 3: get_or_create_weekly_album returns the album of the week, which
\* it creates when there is none, or raises
ResolveAlbum(p) ==
    /\ gsPc[p] = "album"
    /\ LET rows == RowsFor(ThisUser, ThisWeek)
       IN  \E ok \in BOOLEAN :
            IF ok /\ rows = {}
            THEN /\ albums' = albums \cup {NewRow(ThisUser, ThisWeek, Filename(ThisUser, ThisWeek))}
                 /\ nextId' = nextId + 1
                 /\ gsAlbum' = [gsAlbum EXCEPT ![p] = nextId]
                 /\ gsPc' = [gsPc EXCEPT ![p] = "record"]
                 /\ UNCHANGED gsErr
            ELSE IF ok /\ AlbumLoads(CHOOSE r \in rows : TRUE)
            THEN /\ gsAlbum' = [gsAlbum EXCEPT ![p] = (CHOOSE r \in rows : TRUE).id]
                 /\ gsPc' = [gsPc EXCEPT ![p] = "record"]
                 /\ UNCHANGED <<albums, nextId, gsErr>>
            ELSE /\ gsPc' = [gsPc EXCEPT ![p] = AfterAlbumFailure]
                 /\ gsErr' = [gsErr EXCEPT ![p] = "album"]
                 /\ UNCHANGED <<albums, nextId, gsAlbum>>
    /\ UNCHANGED <<songs, gsWrote, gsCalls, chkPc, chk, chkRet, chkWrote, chkCalls, deletes>>
    /\ UNCHANGED <<albumCallVars, llmVars, weekVars, newsVars, vinylVars>>

\* Steps 4 to 6: the audio is generated and stored, then _create_song_record
\* inserts the song row
CreateSongRecord(p) ==
    /\ gsPc[p] = "record"
    /\ \E outcome \in {"audio", "record", "ok"} :
        IF outcome = "ok"
        THEN /\ songs' = [songs EXCEPT !.today = @ + 1]
             /\ albums' = SongCountTrigger(gsAlbum[p], 1)
             /\ chk' = SongCountMoved
             /\ gsWrote' = [gsWrote EXCEPT ![p] = TRUE]
             /\ gsPc' = [gsPc EXCEPT ![p] = "done"]
             /\ UNCHANGED gsErr
        ELSE /\ RequestFails(p, outcome)
             /\ UNCHANGED <<songs, albums, chk, gsWrote>>
    /\ UNCHANGED <<nextId, gsAlbum, gsCalls, chkPc, chkRet, chkWrote, chkCalls, deletes>>
    /\ UNCHANGED <<albumCallVars, llmVars, weekVars, newsVars, vinylVars>>

\* ----------------------------------------------------------- delete_song
\* the row of one song of the album is deleted
DeleteSong ==
    /\ deletes < MaxDeletes
    /\ deletes' = deletes + 1
    /\ \E made \in {"old", "today"} :
        /\ songs[made] > 0
        /\ songs' = [songs EXCEPT ![made] = @ - 1]
    /\ albums' = SongCountTrigger(1, -1)
    /\ chk' = SongCountMoved
    /\ UNCHANGED <<nextId, gsPc, gsAlbum, gsWrote, gsErr, gsCalls, chkPc, chkRet, chkWrote,
                   chkCalls>>
    /\ UNCHANGED <<albumCallVars, llmVars, weekVars, newsVars, vinylVars>>

\* ------------------------------------------------ check_album_completion
\* a completion test that asks for more than seven songs
CompleteAboveSeven(song_count) == song_count > 7

\* is_complete = song_count >= 7
Complete(song_count) == song_count >= 7

NoRead == [song_count |-> 0, is_complete |-> FALSE, changed |-> FALSE]

\* the select of song_count and is_complete; a missing album or a store error
\* ends the call with False
CheckRead(c) ==
    /\ chkPc[c] = "idle"
    /\ chkCalls[c] < MaxChecks
    /\ chkCalls' = [chkCalls EXCEPT ![c] = @ + 1]
    /\ chkWrote' = [chkWrote EXCEPT ![c] = FALSE]
    /\ \E ok \in BOOLEAN :
        IF ok /\ albums # {}
        THEN LET row == CHOOSE r \in albums : TRUE
             IN  /\ chk' = [chk EXCEPT ![c] = [song_count |-> row.song_count,
                                                is_complete |-> row.is_complete,
                                                changed |-> FALSE]]
                 /\ chkPc' = [chkPc EXCEPT ![c] = "read"]
                 /\ chkRet' = [chkRet EXCEPT ![c] = "none"]
        ELSE /\ chkRet' = [chkRet EXCEPT ![c] = "error"]
             /\ chk' = [chk EXCEPT ![c] = NoRead]
             /\ UNCHANGED chkPc
    /\ UNCHANGED <<songs, gsPc, gsAlbum, gsWrote, gsErr, gsCalls, deletes>>
    /\ UNCHANGED <<albumVars, llmVars, weekVars, newsVars, vinylVars>>

\* an update that is sent whatever the stored value
NeedsUpdateAlways(is_complete, stored) == TRUE

\* if is_complete != response.data.get('is_complete')
NeedsUpdate(is_complete, stored) == is_complete # stored

\* the update of is_complete, made only when the value differs from the one
\* read, and the return; an exception of the update ends the call with False
CheckWrite(c) ==
    /\ chkPc[c] = "read"
    /\ chkPc' = [chkPc EXCEPT ![c] = "idle"]
    /\ LET is_complete == Complete(chk[c].song_count)
       IN  IF NeedsUpdate(is_complete, chk[c].is_complete)
           THEN \E ok \in BOOLEAN :
                IF ok
                THEN /\ albums' = {[r EXCEPT !.is_complete = is_complete] : r \in albums}
                     /\ chkWrote' = [chkWrote EXCEPT ![c] = TRUE]
                     /\ chkRet' = [chkRet EXCEPT ![c] = IF is_complete THEN "true" ELSE "false"]
                ELSE /\ chkRet' = [chkRet EXCEPT ![c] = "error"]
                     /\ UNCHANGED <<albums, chkWrote>>
           ELSE /\ chkRet' = [chkRet EXCEPT ![c] = IF is_complete THEN "true" ELSE "false"]
                /\ UNCHANGED <<albums, chkWrote>>
    /\ chk' = [chk EXCEPT ![c] = NoRead]
    /\ UNCHANGED <<nextId, songs, gsPc, gsAlbum, gsWrote, gsErr, gsCalls, chkCalls, deletes>>
    /\ UNCHANGED <<albumCallVars, llmVars, weekVars, newsVars, vinylVars>>

NextSongs ==
    \/ \E p \in Clients : StartGenerateSong(p) \/ ResolveAlbum(p) \/ CreateSongRecord(p)
    \/ DeleteSong
    \/ \E c \in Checkers : CheckRead(c) \/ CheckWrite(c)


\* ======================================================= specifications
\* the parts of the backend that a specification leaves out stay as they are
AlbumCallsOff ==
    /\ imgCfg = [gemini |-> TRUE, openai |-> TRUE]
    /\ blobs = {}
    /\ pc = [p \in Procs |-> "off"]
    /\ user_id = [p \in Procs |-> 0]
    /\ refDate = [p \in Procs |-> 0]
    /\ week_start = [p \in Procs |-> 0]
    /\ artwork = [p \in Procs |-> "none"]
    /\ image_failed = [p \in Procs |-> FALSE]
    /\ imgLog = [p \in Procs |-> <<>>]
    /\ chainCalls = [p \in Procs |-> 0]
    /\ uploads = [p \in Procs |-> <<>>]
    /\ ret = [p \in Procs |-> 0]
    /\ retFlag = [p \in Procs |-> FALSE]
    /\ err = [p \in Procs |-> "none"]
    /\ conflict = [p \in Procs |-> FALSE]
    /\ pred = [p \in Procs |-> {}]

AlbumOff ==
    /\ AlbumCallsOff
    /\ albums = {}
    /\ nextId = 1

ValidatorOff ==
    /\ vResp = NoResp
    /\ vOut = NoOut

LLMOff ==
    /\ llmCfg = [openai |-> TRUE, gemini |-> TRUE]
    /\ llmPc = "off"
    /\ llmLog = <<>>
    /\ llmResp = NoResp
    /\ llmRet = NoData
    /\ llmErr = "none"

\* LLMService(): at least one key is configured, or the constructor raises
LLMInit ==
    /\ llmCfg \in {c \in [openai : BOOLEAN, gemini : BOOLEAN] : c.openai \/ c.gemini}
    /\ llmPc = "idle"
    /\ llmLog = <<>>
    /\ llmResp = NoResp
    /\ llmRet = NoData
    /\ llmErr = "none"

ValidatorInit ==
    /\ vResp \in Responses
    /\ vOut = NoOut

WeekOff ==
    /\ wbDate = NoDatetime
    /\ wbOut = NoWeek

WeekInit ==
    /\ wbDate \in Datetimes
    /\ wbOut = NoWeek

NoArgs == [cats |-> <<>>, loc |-> "US", max |-> 0]

NewsIdle(cfgs, position) ==
    /\ newsCfg \in cfgs
    /\ cache = {}
    /\ now = 0
    /\ ticks = 0
    /\ fetches = 0
    /\ newsPc = position
    /\ newsArgs = NoArgs
    /\ newsProv = "none"
    /\ newsLog = <<>>
    /\ preferred_articles = <<>>
    /\ general_articles = <<>>
    /\ newsRet = <<>>
    /\ newsHit = FALSE

DistributionOff == distIn = -1 /\ distOut = NoDistribution

DistributionInit == distIn \in 0..MaxCount /\ distOut = NoDistribution

NewsCallsOff == NewsIdle({[serpapi |-> TRUE, newsapi |-> TRUE, worldnews |-> TRUE]}, "off")

NewsOff == NewsCallsOff /\ DistributionOff

\* NewsAggregatorService(): an empty cache; any of the three keys may be unset
NewsInit ==
    /\ NewsIdle([serpapi : BOOLEAN, newsapi : BOOLEAN, worldnews : BOOLEAN], "idle")
    /\ DistributionOff

VinylOff ==
    /\ vdIn = NoVinylArgs
    /\ vdOut = NoDisk

VinylInit ==
    /\ vdIn \in [disk_size : 1..MaxDiskSize, hole_ratio : HoleRatios,
                  image : ImageKinds, pil : PillowBuilds]
    /\ vdOut = NoDisk

SongCalls(position) ==
    /\ gsPc = [p \in Clients |-> position]
    /\ gsAlbum = [p \in Clients |-> 0]
    /\ gsWrote = [p \in Clients |-> FALSE]
    /\ gsErr = [p \in Clients |-> "none"]
    /\ gsCalls = [p \in Clients |-> 0]
    /\ chkPc = [c \in Checkers |-> position]
    /\ chk = [c \in Checkers |-> NoRead]
    /\ chkRet = [c \in Checkers |-> "none"]
    /\ chkWrote = [c \in Checkers |-> FALSE]
    /\ chkCalls = [c \in Checkers |-> 0]
    /\ deletes = 0

SongsOff ==
    /\ songs = [old |-> 0, today |-> 0]
    /\ SongCalls("off")

\* the start of a day: the week has no album yet, or it has the album with
\* the songs of the earlier days
SongsInit ==
    /\ \/ albums = {} /\ nextId = 1 /\ songs = [old |-> 0, today |-> 0]
       \/ \E k \in EarlierSongs :
            /\ albums = {AlbumRowWith(k)}
            /\ nextId = 2
            /\ songs = [old |-> k, today |-> 0]
    /\ SongCalls("idle")

\* concurrent get_or_create_weekly_album calls
Init == AlbumInit /\ ValidatorOff /\ LLMOff /\ WeekOff /\ NewsOff /\ VinylOff /\ SongsOff
Spec == Init /\ [][NextAlbum]_vars

\* _parse_and_validate_response on every response
InitValidate == AlbumOff /\ ValidatorInit /\ LLMOff /\ WeekOff /\ NewsOff /\ VinylOff /\ SongsOff
SpecValidate == InitValidate /\ [][ValidateResponse]_vars

\* one generate_song_content call
InitLLM == AlbumOff /\ ValidatorOff /\ LLMInit /\ WeekOff /\ NewsOff /\ VinylOff /\ SongsOff
SpecLLM == InitLLM /\ [][NextLLM]_vars

\* get_week_boundaries on every datetime
InitWeek == AlbumOff /\ ValidatorOff /\ LLMOff /\ WeekInit /\ NewsOff /\ VinylOff /\ SongsOff
SpecWeek == InitWeek /\ [][ComputeWeekBoundaries]_vars

\* fetch_news calls, one after the other, on one NewsAggregatorService
InitNews == AlbumOff /\ ValidatorOff /\ LLMOff /\ WeekOff /\ NewsInit /\ VinylOff /\ SongsOff
SpecNews == InitNews /\ [][NextNews]_vars

\* create_vinyl_disk on every disk size, hole ratio and kind of image
InitVinyl == AlbumOff /\ ValidatorOff /\ LLMOff /\ WeekOff /\ NewsOff /\ VinylInit /\ SongsOff
SpecVinyl == InitVinyl /\ [][CreateVinylDisk]_vars

\* one day of generate_song and delete_song requests and of
\* check_album_completion calls on the album of the week
InitSongs == AlbumCallsOff /\ ValidatorOff /\ LLMOff /\ WeekOff /\ NewsOff /\ VinylOff /\ SongsInit
SpecSongs == InitSongs /\ [][NextSongs]_vars

\* the 70/30 distribution of fetch_news on every max_articles
InitDistribution ==
    AlbumOff /\ ValidatorOff /\ LLMOff /\ WeekOff /\ NewsCallsOff /\ DistributionInit
    /\ VinylOff /\ SongsOff
SpecDistribution == InitDistribution /\ [][CalculateDistribution]_vars

\* the three provider chains
InitChains == Init \/ InitLLM \/ InitNews
NextChains == NextAlbum \/ NextLLM \/ NextNews
SpecChains == InitChains /\ [][NextChains]_vars


\* ================================================================ claims

\* the Monday-to-Sunday week a reference day falls in (ordinal day 1 is a Monday)
WeekOf(d) == (d - 1) \div 7

Returned(p) == pc[p] = "returned"

C2_ConflictLoserReturnsWinnerRow ==
    \A p \in Procs :
        conflict[p] =>
            /\ pc[p] = "returned"
            /\ \E r \in RowsFor(user_id[p], week_start[p]) : ret[p] = r.id

ConfiguredImageProviders ==
    (IF imgCfg.gemini THEN <<"gemini">> ELSE <<>>) \o
    (IF imgCfg.openai THEN <<"dalle">> ELSE <<>>)

\* every configured image provider was attempted and failed
EveryImageProviderFailed(log) ==
    /\ [i \in 1..Len(log) |-> log[i].prov] = ConfiguredImageProviders
    /\ \A i \in 1..Len(log) : ~log[i].ok

\* C4: a call that creates a new album without a custom cover returns
\* image_generation_failed = TRUE exactly when every configured image provider
\* failed and the placeholder was substituted; it then still returns the
\* created album, built from the placeholder, and no call raises out of the
\* artwork stage.
C4_FlagIffPlaceholder ==
    /\ \A p \in Procs :
        (Returned(p) /\ chainCalls[p] = 1) =>
            /\ retFlag[p] <=> (EveryImageProviderFailed(imgLog[p])
                               /\ artwork[p] = "placeholder")
            /\ \E r \in albums : r.id = ret[p]
    /\ \A p \in Procs : pc[p] = "raised" => err[p] \in {"vinyl", "upload", "insert"}

\* both providers are configured, both failed, and the call returned its
\* new album with the flag set
C4_Witness ==
    \E p \in Procs :
        /\ Returned(p) /\ chainCalls[p] = 1
        /\ imgCfg.gemini /\ imgCfg.openai
        /\ Len(imgLog[p]) = 2
        /\ artwork[p] = "placeholder"
        /\ retFlag[p]
        /\ \E r \in albums : r.id = ret[p]

\* ------------------------------------------------------------ provider chains
\* the position of a provider in a chain's declared order
Position(order, prov) == CHOOSE i \in 1..Len(order) : order[i] = prov

\* one chain invocation's log: providers in the declared order, each at most
\* once, and none after one that succeeded
InDeclaredOrder(order, provs, succeeded) ==
    /\ \A i \in 1..Len(provs) : \E k \in 1..Len(order) : order[k] = provs[i]
    /\ \A i, j \in 1..Len(provs) :
        i < j => Position(order, provs[i]) < Position(order, provs[j])
    /\ \A i \in 1..Len(provs) : succeeded[i] => i = Len(provs)

ImageChainInOrder ==
    \A p \in Procs :
        LET log == imgLog[p]
        IN  /\ InDeclaredOrder(<<"gemini", "dalle">>,
                               [i \in 1..Len(log) |-> log[i].prov],
                               [i \in 1..Len(log) |-> log[i].ok])
            /\ (log # <<>> /\ log[Len(log)].ok) => artwork[p] = log[Len(log)].prov

LLMChainInOrder ==
    /\ InDeclaredOrder(<<"openai", "gemini">>,
                       [i \in 1..Len(llmLog) |-> llmLog[i].prov],
                       [i \in 1..Len(llmLog) |-> llmLog[i].result = "accepted"])
    /\ (llmLog # <<>> /\ llmLog[Len(llmLog)].result = "accepted")
        => /\ llmPc = "returned"
           /\ llmRet = llmLog[Len(llmLog)].resp.payload

NewsChainInOrder ==
    /\ InDeclaredOrder(<<"serpapi", "newsapi", "worldnews">>,
                       [i \in 1..Len(newsLog) |-> newsLog[i].prov],
                       [i \in 1..Len(newsLog) |-> newsLog[i].result = "articles"])
    /\ \A i \in 1..Len(newsLog) : newsLog[i].pool = newsLog[1].pool
    /\ (newsLog # <<>> /\ newsLog[Len(newsLog)].result = "articles")
        => LET value == newsLog[Len(newsLog)].articles
           IN  /\ value # <<>>
               /\ newsLog[1].pool = "preferred"
                   => (newsPc = "general" /\ preferred_articles = value)
               /\ newsLog[1].pool = "general"
                   => (newsPc = "combine" /\ general_articles = value)

\* C5: within one chain invocation (image: Gemini, DALL-E; LLM: OpenAI,
\* Gemini; news: SerpAPI, NewsAPI, WorldNewsAPI) the providers are invoked in
\* the declared order, each at most once, none after one that succeeded, and
\* the chain's value is that of the first provider that succeeded.
C5_ChainsInDeclaredOrder ==
    /\ ImageChainInOrder
    /\ LLMChainInOrder
    /\ NewsChainInOrder

\* a news chain of three configured providers: the first failed, the second
\* succeeded, the third was not invoked and the pool holds the second's articles
C5_Witness ==
    /\ newsCfg.serpapi /\ newsCfg.newsapi /\ newsCfg.worldnews
    /\ newsPc = "general"
    /\ Len(newsLog) = 2
    /\ newsLog[1].prov = "serpapi" /\ newsLog[1].result = "raised"
    /\ newsLog[2].prov = "newsapi" /\ newsLog[2].result = "articles"
    /\ preferred_articles = newsLog[2].articles

\* ---------------------------------------------------------------- LLM content
\* the occurrences of a section marker in lyrics, in either case
Occurrences(lyrics, spellings) ==
    Cardinality({i \in 1..Len(lyrics) : lyrics[i] \in spellings})

OneVerseOneChorus(lyrics) ==
    /\ Occurrences(lyrics, {"[verse]", "[VERSE]"}) = 1
    /\ Occurrences(lyrics, {"[chorus]"}) = 1

NoExtraSections(lyrics) ==
    Occurrences(lyrics, {"[bridge]", "[outro]", "[intro]"}) = 0

\* the whitespace-separated tokens of genre_tags: each ends where the string
\* ends or a space follows
Tokens(tags) ==
    Cardinality({i \in 1..Len(tags) :
                    tags[i] # " " /\ (i = Len(tags) \/ tags[i + 1] = " ")})

\* a JSON object with the four fields, string lyrics and genre_tags, one
\* verse, one chorus and three or more genre-tag tokens
WellFormedObject(payload) ==
    /\ payload.kind = "object"
    /\ payload.has = {"title", "description", "genre_tags", "lyrics"}
    /\ payload.lyricsStr /\ payload.tagsStr
    /\ OneVerseOneChorus(payload.lyrics)
    /\ Tokens(payload.tags) >= 3

LLMProvidersConfigured ==
    (IF llmCfg.openai THEN <<"openai">> ELSE <<>>) \o
    (IF llmCfg.gemini THEN <<"gemini">> ELSE <<>>)

\* C6: generate_song_content returns content only if a provider's response
\* passed validation (the content returned is that response's); when every
\* configured provider failed, by exception or by rejection, it raises and
\* returns nothing.
C6_ReturnsOnlyValidatedContent ==
    /\ llmPc = "returned" =>
        \E i \in 1..Len(llmLog) :
            /\ llmLog[i].result = "accepted"
            /\ llmRet = llmLog[i].resp.payload
            /\ WellFormedObject(llmRet) /\ NoExtraSections(llmRet.lyrics)
    /\ ( /\ [i \in 1..Len(llmLog) |-> llmLog[i].prov] = LLMProvidersConfigured
         /\ \A i \in 1..Len(llmLog) : llmLog[i].result # "accepted" )
       => (llmPc = "raised" /\ llmRet = NoData /\ llmErr # "none")

\* both providers are configured; OpenAI raised, Gemini's response was
\* rejected, and the call raised
C6_Witness ==
    /\ llmPc = "raised"
    /\ Len(llmLog) = 2
    /\ llmLog[1].result = "exception"
    /\ llmLog[2].result = "rejected"
    /\ llmRet = NoData

\* ------------------------------------------------------------ week boundaries
\* a datetime is not later than another
NotAfter(a, b) == a.day < b.day \/ (a.day = b.day /\ a.us <= b.us)

\* C7: for every reference date d, get_week_boundaries(d) returns a
\* week_start that falls on a Monday (at midnight), a week_end on the day six
\* days after week_start (at its last instant), and week_start <= d <= week_end.
C7_WeekBoundaries ==
    wbOut # NoWeek =>
        LET ws == wbOut[1]
            we == wbOut[2]
        IN  /\ (ws.day - 1) % 7 = 0
            /\ we.day = ws.day + 6
            /\ NotAfter(ws, wbDate) /\ NotAfter(wbDate, we)

\* the last instant of a Sunday: the reference date is the week_end itself
C7_Witness ==
    /\ wbDate = [day |-> 14, us |-> LastMicro]
    /\ wbOut # NoWeek
    /\ wbOut[1].day = 8
    /\ wbOut[2] = wbDate

\* ------------------------------------------------------------------ validator
Validated == vOut # NoOut

\* C8: _parse_and_validate_response rejects every response whose lyrics,
\* compared case-insensitively, do not hold exactly one [verse] marker and
\* exactly one [chorus] marker.
C8_RejectsUnlessOneVerseOneChorus ==
    (Validated /\ ~OneVerseOneChorus(vResp.payload.lyrics)) => ~vOut.ok

\* a well-formed object but for a second verse, spelled in upper case
C8_Witness ==
    /\ Validated
    /\ vResp.lines = <<"J">>
    /\ vResp.payload.lyrics = <<"[verse]", "[VERSE]", "[chorus]">>
    /\ Tokens(vResp.payload.tags) >= 3
    /\ ~vOut.ok

\* the response text is a JSON object
IsJsonObject(resp) == resp.lines = <<"J">> /\ resp.payload.kind = "object"

\* C9 as stated: every response that is a JSON object with the four fields,
\* exactly one [verse] and one [chorus] marker and three or more genre-tag
\* tokens is accepted and its parsed content returned.
C9_AcceptsOneVerseOneChorus ==
    (Validated /\ IsJsonObject(vResp) /\ WellFormedObject(vResp.payload))
        => (vOut.ok /\ vOut.data = vResp.payload)

\* C9: every response that is a JSON object with the four fields, exactly
\* one [verse] and one [chorus] marker, no [bridge], [outro] or [intro]
\* marker, and three or more genre-tag tokens is accepted and its parsed
\* content returned.
C9_AcceptsOneVerseOneChorusNoExtras ==
    ( /\ Validated
      /\ IsJsonObject(vResp)
      /\ WellFormedObject(vResp.payload)
      /\ NoExtraSections(vResp.payload.lyrics) )
        => (vOut.ok /\ vOut.data = vResp.payload)

\* an accepted response whose verse marker is spelled in upper case
C9_Witness ==
    /\ Validated
    /\ IsJsonObject(vResp)
    /\ vResp.payload.lyrics = <<"[VERSE]", "la", "[chorus]">>
    /\ Tokens(vResp.payload.tags) = 3
    /\ vOut.ok

\* ----------------------------------------------------------------------- news
\* C10: every list fetch_news returns, freshly fetched or served from the
\* cache, has length at most max_articles.
C10_AtMostMaxArticles ==
    (newsPc = "idle" /\ fetches > 0) => Len(newsRet) <= newsArgs.max

\* a list of max_articles (two or more) articles served from the cache
C10_Witness ==
    /\ newsPc = "idle"
    /\ newsHit
    /\ newsArgs.max >= 2
    /\ Len(newsRet) = newsArgs.max

\* ------------------------------------------------------------------ C11
SameStory(a, b) == NormalizedTitle(a) = NormalizedTitle(b)

\* the articles of a list that no earlier article of the list tells, in order
RECURSIVE FirstOccurrences(_, _)
FirstOccurrences(articles, n) ==
    IF n = 0 THEN <<>>
    ELSE IF \E j \in 1..(n - 1) : SameStory(articles[j], articles[n])
         THEN FirstOccurrences(articles, n - 1)
         ELSE Append(FirstOccurrences(articles, n - 1), articles[n])

Truncated(sq, n) == [i \in 1..(IF n < Len(sq) THEN n ELSE Len(sq)) |-> sq[i]]

NoSharedTitle(sq) ==
    \A i, j \in DOMAIN sq : i # j => ~SameStory(sq[i], sq[j])

\* C11: a fetch_news call that fetched returns the preferred pool followed by
\* the general pool, without every article whose lower-cased, trimmed title
\* is that of an earlier one, in the order they had, cut to max_articles; and
\* no list fetch_news returns, fetched or cached, holds two articles with the
\* same lower-cased, trimmed title.
C11_FirstOccurrencesOfBothPools ==
    /\ (newsPc = "idle" /\ fetches > 0 /\ ~newsHit) =>
           LET all_articles == preferred_articles \o general_articles
           IN  newsRet = Truncated(FirstOccurrences(all_articles, Len(all_articles)),
                                   newsArgs.max)
    /\ NoSharedTitle(newsRet)

\* a call whose general pool told the story of its preferred pool again
C11_Witness ==
    /\ newsPc = "idle" /\ fetches > 0 /\ ~newsHit
    /\ preferred_articles = <<"A", "B">>
    /\ general_articles = <<"a ">>
    /\ newsRet = <<"A", "B">>

\* ------------------------------------------------------------------ C12
\* the entries stored for a request with these categories (in any order), this
\* location and this max_articles less than 3600 seconds ago
FreshEntriesFor(args) ==
    {e \in cache : /\ e.request = RequestOf(args)
                   /\ now - e.time < 3600}

FetchNewsIsCalled == fetches' = fetches + 1

FullFetchEnds == newsPc = "combine" /\ newsPc' = "idle"

ProviderIsInvoked == newsLog' # newsLog /\ newsLog' # <<>>

\* C12: fetch_news answers from the cache, and invokes no provider, exactly
\* when an entry for the same categories (in any order), location and
\* max_articles was stored less than 3600 seconds earlier; otherwise it runs
\* the full fetch, which ends by overwriting the entry of that key.
C12_CacheHitIffFreshEntry ==
    [][/\ FetchNewsIsCalled =>
            IF FreshEntriesFor(newsArgs') # {}
            THEN /\ newsHit' /\ newsPc' = "idle" /\ newsLog' = <<>>
                 /\ cache' = cache
                 /\ \E e \in FreshEntriesFor(newsArgs') : newsRet' = e.articles
            ELSE ~newsHit' /\ newsPc' \in {"preferred", "combine"}
       /\ ProviderIsInvoked => ~newsHit /\ ~newsHit'
       /\ FullFetchEnds =>
            /\ \A e \in cache' :
                   IF e.request = RequestOf(newsArgs)
                   THEN e.time = now /\ Truncated(e.articles, newsArgs.max) = newsRet'
                   ELSE e \in cache
            /\ \E e \in cache' : e.request = RequestOf(newsArgs)
            /\ \A e \in cache : e.request # RequestOf(newsArgs) => e \in cache'
      ]_vars

\* a call answered from an entry that was stored 1800 seconds earlier for the
\* same categories in another order
C12_Witness ==
    /\ newsHit /\ fetches = 2 /\ newsPc = "idle"
    /\ newsArgs.cats = <<CatB, CatA>> /\ newsArgs.max = 3
    /\ \E e \in cache : /\ e.request = RequestOf(newsArgs)
                         /\ e.key[1] = <<"a", ",", "b">>
                         /\ now - e.time = 1800
                         /\ newsRet = e.articles /\ newsRet # <<>>

\* ------------------------------------------------------------------ C17
\* call p runs its lookup in this step
LooksUp(p) == pc[p] = "idle" /\ pc'[p] # "idle"

\* C17: a get_or_create_weekly_album call that looks up a (user_id,
\* week_start) for which the album table holds a row returns that row with
\* image_generation_failed = false, and invokes no image provider, vinyl
\* transform, upload, removal or insert: the album table and the bucket are as
\* they were.
C17_ExistingAlbumReturnedUntouched ==
    [][\A p \in Procs :
        (LooksUp(p) /\ RowsFor(user_id'[p], week_start'[p]) # {}) =>
            /\ pc'[p] = "returned"
            /\ \E r \in RowsFor(user_id'[p], week_start'[p]) : ret'[p] = r.id
            /\ retFlag'[p] = FALSE
            /\ albums' = albums /\ blobs' = blobs
            /\ imgLog'[p] = imgLog[p] /\ uploads'[p] = uploads[p]
      ]_vars

\* ------------------------------------------------------------------ C18
\* what generate_song_content does once the primary has failed: it attempts
\* Gemini when that is configured, returns what Gemini produced if the
\* validator accepts it, and raises otherwise
AfterFailedPrimary ==
    IF llmCfg.gemini
    THEN \/ Len(llmLog) = 1 /\ llmPc = "gemini"
         \/ /\ Len(llmLog) = 2 /\ llmLog[2].prov = "gemini"
            /\ IF llmLog[2].result = "accepted"
               THEN /\ llmPc = "returned"
                    /\ llmResp = llmLog[2].resp
                    /\ llmRet = Validate(llmResp).data /\ llmRet # NoData
               ELSE llmPc = "raised"
    ELSE Len(llmLog) = 1 /\ llmPc = "raised"

\* C18: when the validator rejects the response of OpenAI, the call goes on as
\* it does after an exception of the OpenAI request: Gemini, when configured,
\* is attempted, and its content is returned if the validator accepts it.
C18_RejectionFallsBackLikeFailure ==
    (llmLog # <<>> /\ llmLog[1].prov = "openai"
        /\ llmLog[1].result \in {"rejected", "exception"})
    => AfterFailedPrimary

\* OpenAI answered, the validator rejected the answer, Gemini's was returned
C18_Witness ==
    /\ Len(llmLog) = 2
    /\ llmLog[1].prov = "openai" /\ llmLog[1].result = "rejected"
    /\ llmLog[2].prov = "gemini" /\ llmLog[2].result = "accepted"
    /\ llmPc = "returned" /\ llmRet = Validate(llmLog[2].resp).data

\* ------------------------------------------------------------------ C19
UploadAttempts(p) == SelectSeq(uploads[p], LAMBDA r : r.op = "upload")

\* _upload_vinyl_disk has raised "Failed to upload vinyl disk"
StorageErrorRaised(p) == pc[p] = "raised" /\ err[p] = "upload"

\* C19: a call of _upload_vinyl_disk makes at most two upload attempts; the
\* second is made only after the first met the duplicate-object conflict, and
\* after a removal of the object, whose failure is ignored; the call raises a
\* storage error if the retry fails or if the first failure was no conflict.
C19_OneRetryAfterConflict ==
    \A p \in Procs :
        LET log == uploads[p]
        IN  /\ Len(UploadAttempts(p)) <= 2
            /\ Len(log) >= 1 => log[1].op = "upload"
            /\ Len(log) >= 2 => log[1].result = "conflict" /\ log[2].op = "remove"
            /\ Len(log) >= 3 => log[3].op = "upload"
            /\ Len(log) <= 3
            /\ (Len(log) = 1 /\ log[1].result = "conflict") => pc[p] = "remove"
            /\ Len(log) = 2 => pc[p] = "retry"
            /\ (Len(log) = 1 /\ log[1].result = "error") => StorageErrorRaised(p)
            /\ (Len(log) = 3 /\ log[3].result # "ok") => StorageErrorRaised(p)
            /\ StorageErrorRaised(p) => log # <<>> /\ log[Len(log)].result # "ok"

\* a call whose upload met a conflict, whose removal failed and whose retry
\* failed too
C19_Witness ==
    \E p \in Procs :
        /\ Len(uploads[p]) = 3
        /\ uploads[p][1].result = "conflict"
        /\ uploads[p][2].result = "error"
        /\ uploads[p][3].result = "conflict"
        /\ StorageErrorRaised(p)

\* ------------------------------------------------------------------ C15
\* the call has returned an image
DiskReturned == vdOut # NoDisk /\ vdOut.raised = "none"

\* the ratio passed lies in the open interval (0, 0.5)
InsideInterval(h) == h.den > 0 /\ h.num > 0 /\ 2 * h.num < h.den

CenterOf(disk_size) == disk_size \div 2

\* the image is RGBA, disk_size x disk_size, its center pixel has alpha 0 and
\* the pixel one row below the top of the vertical axis has alpha 255
CenterClearAxisOpaque ==
    /\ vdOut.mode = "RGBA"
    /\ vdOut.width = vdIn.disk_size /\ vdOut.height = vdIn.disk_size
    /\ vdOut.alpha[<<CenterOf(vdIn.disk_size), CenterOf(vdIn.disk_size)>>] = 0
    /\ <<CenterOf(vdIn.disk_size), 1>> \in DOMAIN vdOut.alpha
    /\ vdOut.alpha[<<CenterOf(vdIn.disk_size), 1>>] = 255

\* C15 (as stated): for every hole ratio in (0, 0.5) and every disk size > 0
\* the image create_vinyl_disk returns is RGBA, disk_size x disk_size, with a
\* fully transparent center pixel and an opaque pixel at (disk_size/2, 1).
C15_CenterClearAxisOpaque ==
    (DiskReturned /\ InsideInterval(vdIn.hole_ratio) /\ vdIn.disk_size > 0)
    => CenterClearAxisOpaque

\* int((disk_size // 2) * hole_ratio), worked out on the fraction
HoleRadiusFor(disk_size, h) == ((disk_size \div 2) * h.num) \div h.den

\* C15 (amended): for every hole ratio in (0, 0.5) and every disk size with
\* int((disk_size // 2) * hole_ratio) >= 1, the image create_vinyl_disk
\* returns for a picture without transparency is RGBA, disk_size x disk_size,
\* with a fully transparent center pixel and an opaque pixel at
\* (disk_size // 2, 1).
C15_CenterClearAxisOpaqueWithHole ==
    (/\ DiskReturned
     /\ InsideInterval(vdIn.hole_ratio)
     /\ HoleRadiusFor(vdIn.disk_size, vdIn.hole_ratio) >= 1
     /\ vdIn.image = "opaque")
    => CenterClearAxisOpaque

\* a 16 x 16 disk of an opaque picture with the hole of ratio 0.14 (radius 1)
C15_Witness ==
    /\ DiskReturned
    /\ vdIn.disk_size = 16 /\ vdIn.hole_ratio = Ratio(14, 100) /\ vdIn.image = "opaque"
    /\ vdOut.alpha[<<8, 8>>] = 0 /\ vdOut.alpha[<<8, 9>>] = 0
    /\ vdOut.alpha[<<8, 10>>] = 255 /\ vdOut.alpha[<<8, 1>>] = 255
    /\ vdOut.alpha[<<0, 0>>] = 0

\* ------------------------------------------------------------------ C16
\* C16: create_vinyl_disk builds the mask with 0.14 when the ratio passed lies
\* outside the open interval (0, 0.5), and with the ratio passed when it lies
\* inside; the ratio makes the call raise in neither case.
C16_RatioCoercedOutsideInterval ==
    vdOut # NoDisk =>
        /\ vdOut.hole_ratio = IF InsideInterval(vdIn.hole_ratio) THEN vdIn.hole_ratio
                              ELSE Ratio(14, 100)
        /\ vdOut.raised # "none" => vdIn.image = "unreadable"

\* a call with the ratio 0.5 returned a disk cut with 0.14
C16_Witness ==
    /\ DiskReturned
    /\ vdIn.hole_ratio = Ratio(1, 2)
    /\ vdOut.hole_ratio = Ratio(14, 100)

SongRowWritten == songs'.today > songs.today

\* C14: generate_song writes the song row only after
\* get_or_create_weekly_album has returned an album to it; a request whose
\* album resolution or creation failed has ended in an error and has written
\* no song row.
C14_SongRowOnlyAfterAlbum ==
    /\ [](\A p \in Clients :
            /\ gsWrote[p] => \E a \in albums : a.id = gsAlbum[p]
            /\ gsErr[p] = "album" => gsPc[p] = "error" /\ ~gsWrote[p] /\ gsAlbum[p] = 0)
    /\ [][SongRowWritten =>
            \E p \in Clients :
                /\ gsPc[p] = "record" /\ gsPc'[p] = "done"
                /\ gsAlbum[p] # 0 /\ gsWrote'[p] /\ ~gsWrote[p]
                /\ songs'.today = songs.today + 1
         ]_vars

\* one request ended in an error at the album step and left the songs table
\* alone, another got its album and wrote its song
C14_Witness ==
    \E p, q \in Clients :
        /\ gsPc[p] = "error" /\ gsErr[p] = "album" /\ ~gsWrote[p]
        /\ gsPc[q] = "done" /\ gsWrote[q] /\ gsAlbum[q] # 0
        /\ songs.today = 1

\* ------------------------------------------------------------------ C20
\* caller c's check_album_completion call returns in this step without a
\* store error
Completes(c) == chkPc[c] = "read" /\ chkPc'[c] = "idle" /\ chkRet'[c] # "error"

Settled == \A a \in albums' : a.is_complete <=> (a.song_count >= 7)

\* C20 (as stated): a check_album_completion call during which song_count
\* did not change leaves, when it returns, the stored is_complete equal to
\* (song_count >= 7).
C20_CheckSettlesOnceCountRests ==
    [][\A c \in Checkers : (Completes(c) /\ ~chk[c].changed) => Settled]_vars

\* the row is as caller c read it
RowAsRead(c) ==
    \A a \in albums : a.song_count = chk[c].song_count /\ a.is_complete = chk[c].is_complete

\* C20 (amended): a check_album_completion call that returns while the row
\* is as it read it (no song insertion or deletion and no write of another
\* check has changed it since) leaves the stored is_complete equal to
\* (song_count >= 7).
C20_CheckSettlesUnchangedRow ==
    [][\A c \in Checkers : (Completes(c) /\ RowAsRead(c)) => Settled]_vars

\* a check has found seven songs and set is_complete
C20_Witness ==
    \E c \in Checkers :
        /\ chkPc[c] = "idle" /\ chkRet[c] = "true"
        /\ \E a \in albums : a.song_count = 7 /\ a.is_complete

\* ------------------------------------------------------------------ C21
\* the bool a check_album_completion call returned: `return is_complete`, or
\* the `return False` for a missing album and after an exception
ReturnValue(r) == r = "true"

\* caller c's call ends in this step: after its read, or at a read that
\* found no album or raised
CheckEnds(c) == chkPc'[c] = "idle" /\ (chkPc[c] = "read" \/ chkCalls'[c] # chkCalls[c])

CheckFailed(c) == chkRet'[c] = "error"

\* the only change of this step is is_complete = v on the rows of the table
OnlyCompletionWritten(v) ==
    /\ albums' = {[r EXCEPT !.is_complete = v] : r \in albums}
    /\ songs' = songs /\ blobs' = blobs /\ nextId' = nextId

NothingWritten == albums' = albums /\ songs' = songs /\ blobs' = blobs /\ nextId' = nextId

\* C21: a check_album_completion call that read a row returns
\* (song_count >= 7) of that row; it writes is_complete, and nothing else,
\* only when that value differs from the is_complete it read, and writes
\* nothing when they agree; for a missing album or a store error it returns
\* False and has written nothing.
C21_WritesOnlyWhenChanged ==
    [][\A c \in Checkers :
        CheckEnds(c) =>
            IF CheckFailed(c)
            THEN ~ReturnValue(chkRet'[c]) /\ ~chkWrote'[c] /\ NothingWritten
            ELSE /\ chkPc[c] = "read"
                 /\ ReturnValue(chkRet'[c]) <=> (chk[c].song_count >= 7)
                 /\ chkWrote'[c] <=> ((chk[c].song_count >= 7) # chk[c].is_complete)
                 /\ IF chkWrote'[c] THEN OnlyCompletionWritten(chk[c].song_count >= 7)
                    ELSE NothingWritten
      ]_vars

\* one call found seven songs under is_complete False and wrote True; the
\* next found the flag in agreement and returned True without writing
C21_Witness ==
    \E c, d \in Checkers :
        /\ c # d
        /\ chkPc[c] = "idle" /\ chkRet[c] = "true" /\ chkWrote[c]
        /\ chkPc[d] = "idle" /\ chkRet[d] = "true" /\ ~chkWrote[d]
        /\ \E a \in albums : a.song_count = 7 /\ a.is_complete

\* ------------------------------------------------------------------ C22
\* the first step of the create path: the custom cover goes to the vinyl
\* transform, otherwise the artwork chain starts
CreatePathStart == {"vinyl", "gemini", "dalle", "placeholder"}

CreatePath == CreatePathStart \cup {"upload", "remove", "retry", "insert"}

\* a row for the pair of call p was in the table when p looked it up: a call
\* for that pair had returned by then
RowExistedAtLookup(p) ==
    \E q \in pred[p] : user_id[q] = user_id[p] /\ week_start[q] = week_start[p]

\* call p is past a lookup that reported 'no album' although the row existed
MissedExistingRow(p) ==
    /\ RowExistedAtLookup(p)
    /\ pc[p] \in CreatePath \cup {"raised"}

\* C22: a lookup that raises is reported as 'no album': when it raises while
\* a row for (user_id, week_start) exists, the call does not return that row
\* but starts the create path for the same pair, and goes through it (artwork
\* or custom cover, vinyl transform, upload, insert) until a step raises; its
\* insert is sent for the pair that already has a row.
C22_LookupErrorRunsCreatePath ==
    /\ [][\A p \in Procs :
            (LooksUp(p) /\ RowsFor(user_id'[p], week_start'[p]) # {} /\ pc'[p] # "returned")
            => /\ pc'[p] \in CreatePathStart
               /\ ret'[p] = 0
               /\ chainCalls'[p] = (IF artwork'[p] = "custom" THEN 0 ELSE 1)
               /\ albums' = albums /\ blobs' = blobs
         ]_vars
    /\ [][\A p \in Procs :
            (MissedExistingRow(p) /\ pc[p] # "raised" /\ pc'[p] # pc[p])
            => /\ pc'[p] \in CreatePath \cup {"raised"}
               /\ user_id'[p] = user_id[p] /\ week_start'[p] = week_start[p]
               /\ pc[p] = "insert" =>
                    /\ RowsFor(user_id[p], week_start[p]) # {}
                    /\ pc'[p] = "raised" /\ err'[p] = "insert" /\ conflict'[p]
                    /\ albums' = albums
         ]_vars

\* a call whose lookup raised while the row existed went through the artwork
\* chain, met the object of the first call in the bucket, replaced it, and had
\* its insert rejected
C22_Witness ==
    \E p \in Procs :
        /\ MissedExistingRow(p)
        /\ chainCalls[p] = 1
        /\ Len(uploads[p]) = 3
        /\ uploads[p][1] = [op |-> "upload", result |-> "conflict"]
        /\ uploads[p][3] = [op |-> "upload", result |-> "ok"]
        /\ pc[p] = "raised" /\ err[p] = "insert" /\ conflict[p]
        /\ Cardinality(RowsFor(user_id[p], week_start[p])) = 1

\* ------------------------------------------------------------------ C23
\* a step that changes the album table is the insert of one call, made from
\* the position after a successful upload, and adds one row that carries the
\* URL of the object that call uploaded
RowInsertedAfterUpload ==
    albums' # albums =>
        \E p \in Procs :
            /\ pc[p] = "insert" /\ pc'[p] = "returned"
            /\ uploads[p] # <<>>
            /\ uploads[p][Len(uploads[p])] = [op |-> "upload", result |-> "ok"]
            /\ \E r \in albums' :
                /\ albums' = albums \cup {r} /\ r \notin albums
                /\ r.id = ret'[p]
                /\ r.user_id = user_id[p] /\ r.week_start = week_start[p]
                /\ r.vinyl_disk_url = Filename(user_id[p], week_start[p])

\* a step in which a call raises leaves the album table as it was
RaiseLeavesTable ==
    \A p \in Procs :
        (pc'[p] = "raised" /\ pc[p] # "raised") =>
            /\ albums' = albums
            /\ ret'[p] = 0
            /\ pc[p] \in {"vinyl", "upload", "retry", "insert"}

\* a call whose vinyl transform or upload failed has raised there
StepFailureRaises ==
    \A p \in Procs :
        /\ (pc[p] = "vinyl" /\ pc'[p] \notin {"vinyl", "upload"}) =>
                pc'[p] = "raised" /\ err'[p] = "vinyl"
        /\ (pc[p] \in {"upload", "retry"} /\ pc'[p] \notin {pc[p], "insert", "remove"}) =>
                pc'[p] = "raised" /\ err'[p] = "upload"
        /\ (pc[p] \in {"upload", "retry"} /\ pc'[p] = "insert") =>
                uploads'[p][Len(uploads'[p])] = [op |-> "upload", result |-> "ok"]

\* C23 (as stated): _create_new_album inserts the album row only as its last
\* step, after the upload has succeeded; if artwork generation, the vinyl
\* transform or the upload fails the call raises with the album table
\* unchanged; every row it inserts carries the URL of an object uploaded
\* before the insert.
C23_InsertLastOrRaise ==
    /\ [][RowInsertedAfterUpload /\ RaiseLeavesTable /\ StepFailureRaises]_vars
    /\ [](\A p \in Procs : image_failed[p] => pc[p] # "returned")

\* C23 (amended): _create_new_album inserts the album row only as its last
\* step, after the upload has succeeded; if the vinyl transform or the upload
\* fails the call raises with the album table unchanged, while a failure of
\* every image provider does not end the call (the placeholder is used); every
\* row it inserts carries the URL of an object uploaded before the insert.
C23_InsertLastAfterUpload ==
    /\ [][RowInsertedAfterUpload /\ RaiseLeavesTable /\ StepFailureRaises]_vars
    /\ [](\A p \in Procs : image_failed[p] => pc[p] \in CreatePath \cup {"returned"})

\* one call inserted its row after its upload, built from the placeholder
\* because every image provider had failed; the other raised at its upload
\* and the table holds the one row
C23_Witness ==
    \E p, q \in Procs :
        /\ pc[p] = "returned" /\ image_failed[p] /\ retFlag[p]
        /\ uploads[p] = <<[op |-> "upload", result |-> "ok"]>>
        /\ \E r \in albums : r.id = ret[p] /\ r.vinyl_disk_url = Filename(user_id[p], week_start[p])
        /\ pc[q] = "raised" /\ err[q] = "upload" /\ ret[q] = 0
        /\ Cardinality(albums) = 1

\* ------------------------------------------------------------------ C24
\* the news providers whose key is set, in the order of _fetch_with_fallback
ConfiguredNewsProviders == SelectSeq(NewsProviders, Configured)

\* the provider did not hand articles to the chain: it raised, or it returned
\* the empty list
CameBackEmpty(entry) == entry.result \in {"raised", "empty"} /\ entry.articles = <<>>

\* the _fetch_with_fallback invocation of this pool has returned, and the log
\* is the one of that invocation
ChainReturned(pool) ==
    /\ newsLog # <<>> /\ newsLog[1].pool = pool
    /\ newsPc = (IF pool = "preferred" THEN "general" ELSE "combine")

ChainValue(pool) == IF pool = "preferred" THEN preferred_articles ELSE general_articles

\* C24: in _fetch_with_fallback a provider that returns the empty list
\* without raising is followed, like one that raised, by the next configured
\* provider; the chain returns the first non-empty list in provider order,
\* and the empty list only when every configured provider raised or returned
\* the empty list.
C24_EmptyListFallsThrough ==
    /\ \A i \in 1..Len(newsLog) :
            /\ newsLog[i].prov = ConfiguredNewsProviders[i]
            /\ i < Len(newsLog) => CameBackEmpty(newsLog[i])
    /\ (newsPc \in {"preferred", "general"} /\ newsLog # <<>> /\ newsLog[1].pool = newsPc) =>
            /\ \A i \in 1..Len(newsLog) : CameBackEmpty(newsLog[i])
            /\ Len(newsLog) < Len(ConfiguredNewsProviders)
            /\ newsProv = ConfiguredNewsProviders[Len(newsLog) + 1]
    /\ \A pool \in {"preferred", "general"} :
            ChainReturned(pool) =>
                LET last == newsLog[Len(newsLog)]
                IN  IF CameBackEmpty(last)
                    THEN /\ Len(newsLog) = Len(ConfiguredNewsProviders)
                         /\ ChainValue(pool) = <<>>
                    ELSE /\ last.result = "articles" /\ last.articles # <<>>
                         /\ ChainValue(pool) = last.articles

\* the first provider returned the empty list without raising, the second
\* raised, and the chain returned the articles of the third
C24_Witness ==
    /\ ChainReturned("general")
    /\ Len(newsLog) = 3
    /\ newsLog[1].prov = "serpapi" /\ newsLog[1].result = "empty"
    /\ newsLog[2].prov = "newsapi" /\ newsLog[2].result = "raised"
    /\ newsLog[3].prov = "worldnews" /\ newsLog[3].result = "articles"
    /\ general_articles = newsLog[3].articles /\ general_articles # <<>>

\* ------------------------------------------------------------------ C25
\* the key fetch_news computes for these arguments
KeyOf(args) == CacheKey(args.cats, args.loc, args.max)

\* the entries of that key that hold the empty list and are younger than the TTL
FreshEmptyEntries(args) ==
    {e \in cache : e.key = KeyOf(args) /\ e.articles = <<>> /\ now - e.time < cache_ttl}

\* C25: a fetch_news call that fetched stores its result under its key also
\* when both chains came back empty, and a later call with that key within
\* the TTL returns the stored empty list and attempts no provider.
C25_EmptyResultIsCached ==
    [][/\ FullFetchEnds =>
            \E e \in cache' :
                /\ e.key = KeyOf(newsArgs) /\ e.time = now
                /\ e.articles = _deduplicate_articles(preferred_articles \o general_articles)
                /\ (preferred_articles = <<>> /\ general_articles = <<>>) => e.articles = <<>>
       /\ (FetchNewsIsCalled /\ FreshEmptyEntries(newsArgs') # {}) =>
            /\ newsRet' = <<>> /\ newsHit'
            /\ newsPc' = "idle" /\ newsLog' = <<>> /\ newsProv' = newsProv
            /\ cache' = cache
      ]_vars

\* with a provider configured, a call for three articles is answered with the
\* empty list that a call of 1800 seconds earlier had stored
C25_Witness ==
    /\ newsCfg.serpapi
    /\ fetches = 2 /\ newsPc = "idle" /\ newsHit
    /\ newsArgs.max = 3 /\ newsRet = <<>>
    /\ \E e \in cache : e.key = KeyOf(newsArgs) /\ e.articles = <<>> /\ now - e.time = 1800

\* ------------------------------------------------------------------ C26
\* the request of client p was refused at the daily limit
RefusedAtLimit(p) == gsPc[p] = "error" /\ gsErr[p] = "limit"

\* C26: a generate_song request that finds songs_today >= daily_limit is
\* answered with HTTP 429 and has run none of the generation steps: it holds
\* no album and has written no song row.
C26_LimitAnsweredWith429 ==
    \A p \in Clients :
        RefusedAtLimit(p) =>
            /\ ResponseStatus(gsErr[p]) = 429
            /\ gsAlbum[p] = 0 /\ ~gsWrote[p]

Calculated == distOut # NoDistribution

\* floor(max_articles * 0.7)
SevenTenths(max) == (7 * max) \div 10

\* C28 (as stated): for every max_articles >= 0, preferred_count is
\* floor(max_articles * 0.7), general_count is max_articles - preferred_count,
\* and the two sum to max_articles.
C28_SplitIsFloorOfSevenTenths ==
    Calculated =>
        /\ distOut.preferred_count = SevenTenths(distIn)
        /\ distOut.general_count = distIn - distOut.preferred_count
        /\ distOut.preferred_count + distOut.general_count = distIn

\* C28 (amended): for every max_articles >= 0, preferred_count is the double
\* product max_articles * 0.7 cut to an integer: floor(7 * max_articles / 10)
\* for every max_articles below 90, and that value or one less from there on
\* (one less only at multiples of ten); general_count is max_articles -
\* preferred_count, neither count is negative, and the two sum to
\* max_articles.
C28_SplitSumsToMax ==
    Calculated =>
        /\ distOut.preferred_count \in {SevenTenths(distIn) - 1, SevenTenths(distIn)}
        /\ distOut.preferred_count # SevenTenths(distIn) => (distIn >= 90 /\ distIn % 10 = 0)
        /\ distOut.general_count = distIn - distOut.preferred_count
        /\ distOut.preferred_count >= 0 /\ distOut.general_count >= 0
        /\ distOut.preferred_count + distOut.general_count = distIn

\* max_articles = 90: 62 preferred and 28 general articles
C28_Witness ==
    /\ distIn = 90
    /\ distOut = [preferred_count |-> 62, general_count |-> 28]

\* ------------------------------------------------------------------ C29
\* every configured provider was invoked by this chain invocation and none
\* delivered: each raised or came back with the empty list
EveryProviderFailed ==
    /\ [i \in 1..Len(newsLog) |-> newsLog[i].prov] = ConfiguredNewsProviders
    /\ \A i \in 1..Len(newsLog) : CameBackEmpty(newsLog[i])

\* C29: a _fetch_with_fallback invocation in which every configured provider
\* failed returns the empty list, as does one with no provider configured;
\* a fetch_news call whose two chains returned the empty list returns the
\* empty list: it does not raise.
C29_AllFailedGivesEmptyList ==
    /\ [](\A pool \in {"preferred", "general"} :
            (ChainReturned(pool) /\ EveryProviderFailed) => ChainValue(pool) = <<>>)
    /\ []((ConfiguredNewsProviders = <<>> /\ newsPc # "off") =>
            /\ newsPc \in {"idle", "combine"} /\ newsLog = <<>>
            /\ preferred_articles = <<>> /\ general_articles = <<>>)
    /\ [][(newsPc = "combine" /\ preferred_articles = <<>> /\ general_articles = <<>>) =>
            /\ newsPc' = "idle"
            /\ newsRet' = <<>> /\ ~newsHit'
         ]_vars

\* all three providers are configured and a call for three articles has
\* returned the empty list, freshly fetched
C29_Witness ==
    /\ newsCfg.serpapi /\ newsCfg.newsapi /\ newsCfg.worldnews
    /\ newsPc = "idle" /\ fetches = 1 /\ ~newsHit
    /\ newsArgs.max = 3
    /\ preferred_articles = <<>> /\ general_articles = <<>>
    /\ newsRet = <<>>

\* ------------------------------------------------------------------ C30
\* the radius of the hole as the image shows it: the number of transparent
\* pixels that follow the center pixel on the horizontal axis; -1 when the
\* center pixel itself is not transparent
HoleExtent ==
    LET c == CenterOf(vdIn.disk_size)
        clear == {d \in 0..(vdIn.disk_size - 1 - c) :
                    \A e \in 0..d : vdOut.alpha[<<c + e, c>>] = 0}
    IN  IF clear = {} THEN -1 ELSE CHOOSE d \in clear : \A e \in clear : e <= d

\* the mask shows in the alpha band of the disk of a picture without
\* transparency
MaskVisible ==
    /\ DiskReturned
    /\ InsideInterval(vdIn.hole_ratio) /\ vdIn.disk_size > 0
    /\ vdIn.image = "opaque"

\* r is an integer nearest to disk_size/2 * hole_ratio (either one at a tie)
NearestTo(r, disk_size, h) ==
    LET twice == 2 * h.den * r - disk_size * h.num
    IN  -h.den <= twice /\ twice <= h.den

\* C30 (as stated): for every disk size > 0 and hole ratio in (0, 0.5) the
\* radius of the transparent hole of the mask is round(disk_size/2 *
\* hole_ratio).
C30_HoleRadiusIsRounded ==
    MaskVisible => NearestTo(HoleExtent, vdIn.disk_size, vdIn.hole_ratio)

\* C30 (amended): for every disk size > 0 and hole ratio in (0, 0.5) the
\* radius of the transparent hole of the mask is int((disk_size // 2) *
\* hole_ratio), the product of the halved size cut to an integer; when that
\* is 0 the hole is the center pixel or no pixel at all.
C30_HoleRadiusIsTruncated ==
    MaskVisible =>
        LET r == HoleRadiusFor(vdIn.disk_size, vdIn.hole_ratio)
        IN  IF r >= 1 THEN HoleExtent = r ELSE HoleExtent \in {-1, 0}

\* a 14 x 14 disk with ratio 0.25: 7 * 0.25 = 1.75 and the hole has radius 1
C30_Witness ==
    /\ MaskVisible
    /\ vdIn.disk_size = 14 /\ vdIn.hole_ratio = Ratio(1, 4)
    /\ vdOut.alpha[<<7, 7>>] = 0 /\ vdOut.alpha[<<8, 7>>] = 0
    /\ vdOut.alpha[<<9, 7>>] = 255
    /\ HoleExtent = 1
====
